---- MODULE Spec2Model ----
(***************************************************************************)
(* Model of the Google Maps lead scraper (src/scraper.py, the first        *)
(* version, and src/scrapern.py, the "enhanced" version).                  *)
(*                                                                         *)
(* The two files hold the same three layers:                               *)
(*   batch_scrape_keywords  -> scrape_single_keyword -> extract_place      *)
(* and differ in constants and in error handling.  The variable `variant`  *)
(* says which file is running; every action follows that file's code.      *)
(*                                                                         *)
(* Conventions                                                             *)
(*   - a Python str is a sequence of one-character strings;                *)
(*   - an Optional[int] is <<>> (None) or <<n>>;                           *)
(*   - an href is a natural number, 0 standing for None / "" (falsy);      *)
(*   - the outcome of a Page operation is "ok", "timeout" (playwright's    *)
(*     TimeoutError), "error" (any other Exception) or "interrupt"         *)
(*     (KeyboardInterrupt, a BaseException that `except Exception` does    *)
(*     not catch and a bare `except:` does).                               *)
(***************************************************************************)
EXTENDS Integers, Sequences, FiniteSets, TLC

----------------------------------------------------------------------------
(* Bounds of the model (not program constants).                            *)

\* longest result panel the free (unscripted) environment renders
MaxLinks == 3
\* largest --max-per-keyword / --max-results value tried on the free panel
MaxCap == 2
\* number of keywords of a batch run
NumKeywords == 3
\* links the panel of a batch run's keyword renders
BatchLinks == 1
\* keywords of a batch run checked for termination
LiveKeywords == 2
\* calls of save_places_to_csv made on one path
MaxSaves == 2
\* longest record list handed to save_places_to_csv
SaveLen == 2
\* listings of the panel on which one call is followed listing by listing
VisitLinks == 3

----------------------------------------------------------------------------
(* Program constants.                                                      *)

\* scraper.py: max_no_change = 5
MaxNoChangeScraper == 5
\* scrapern.py: max_no_change = 8
MaxNoChangeScrapern == 8
\* both files: max_scroll_attempts = 50
max_scroll_attempts == 50
\* scrapern.py: for attempt in range(5) around listing.click
ClickRange == 5
\* scrapern.py: for attempt in range(5) around wait_for_selector(details)
DetailsRange == 5
\* scraper.py: elements[:3] in the store-info loop
ElementLimitScraper == 3
\* scrapern.py: range(min(element_count, 10)) in the store-info loop
ElementLimitScrapern == 10

Variants == {"scraper", "scrapern"}

----------------------------------------------------------------------------
(* Python values.                                                          *)

None == <<>>
Some(n) == <<n>>
\* truth value of an Optional[int]: None and 0 are falsy
Truthy(x) == x # None /\ x[1] # 0

UpperAlpha == <<"A","B","C","D","E","F","G","H","I","J","K","L","M",
                "N","O","P","Q","R","S","T","U","V","W","X","Y","Z">>
LowerAlpha == <<"a","b","c","d","e","f","g","h","i","j","k","l","m",
                "n","o","p","q","r","s","t","u","v","w","x","y","z">>

LowerChar(c) ==
    IF \E i \in 1..Len(UpperAlpha) : UpperAlpha[i] = c
    THEN LowerAlpha[CHOOSE i \in 1..Len(UpperAlpha) : UpperAlpha[i] = c]
    ELSE c

\* str.lower()
Lower(s) == [i \in 1..Len(s) |-> LowerChar(s[i])]

\* str.isspace() of one character ("U+202F" is the narrow no-break space)
IsSpace(c) == c \in {" ", "\t", "\n", "U+202F"}

RECURSIVE LStrip(_)
LStrip(s) ==
    IF s # <<>> /\ IsSpace(Head(s)) THEN LStrip(Tail(s)) ELSE s

RECURSIVE RStrip(_)
RStrip(s) ==
    IF s # <<>> /\ IsSpace(s[Len(s)]) THEN RStrip(SubSeq(s, 1, Len(s) - 1)) ELSE s

\* str.strip()
Strip(s) == RStrip(LStrip(s))

\* `sub in s` for two strs
Contains(sub, s) ==
    \E i \in 0..(Len(s) - Len(sub)) : SubSeq(s, i + 1, i + Len(sub)) = sub

\* str.split(sep) for a non-empty sep
RECURSIVE Split(_, _)
Split(s, sep) ==
    IF ~Contains(sep, s) THEN <<s>>
    ELSE LET i == CHOOSE k \in 0..(Len(s) - Len(sep)) :
                    /\ SubSeq(s, k + 1, k + Len(sep)) = sep
                    /\ \A j \in 0..(k - 1) : SubSeq(s, j + 1, j + Len(sep)) # sep
         IN <<SubSeq(s, 1, i)>> \o Split(SubSeq(s, i + Len(sep) + 1, Len(s)), sep)

\* s.replace(c, "") for one character c
Without(s, c) == SelectSeq(s, LAMBDA x : x # c)

\* list[:n] for n >= 0
Take(s, n) == SubSeq(s, 1, IF n < Len(s) THEN n ELSE Len(s))

\* list[n:] for n >= 0
Drop(s, n) == SubSeq(s, n + 1, Len(s))

Range(s) == {s[i] : i \in 1..Len(s)}

----------------------------------------------------------------------------
(* get_category_from_keyword                                               *)

W_bakery == <<"b","a","k","e","r","y">>
W_hotel == <<"h","o","t","e","l">>
W_restaurant == <<"r","e","s","t","a","u","r","a","n","t">>
W_tea_shop == <<"t","e","a"," ","s","h","o","p">>
W_snacks_shop == <<"s","n","a","c","k","s"," ","s","h","o","p">>
W_catering == <<"c","a","t","e","r","i","n","g">>
W_event_management == <<"e","v","e","n","t"," ","m","a","n","a","g","e","m","e","n","t">>
W_wholesale == <<"w","h","o","l","e","s","a","l","e">>
W_frozen_food == <<"f","r","o","z","e","n"," ","f","o","o","d">>
W_biryani == <<"b","i","r","y","a","n","i">>
W_fast_food == <<"f","a","s","t"," ","f","o","o","d">>
W_canteen == <<"c","a","n","t","e","e","n">>
W_mess == <<"m","e","s","s">>

AnyIn(words, s) == \E w \in words : Contains(w, s)

get_category_from_keyword(keyword) ==
    LET keyword_lower == Lower(keyword) IN
    IF AnyIn({W_bakery, W_hotel, W_restaurant, W_tea_shop, W_snacks_shop}, keyword_lower)
    THEN "Food_Businesses"
    ELSE IF AnyIn({W_catering, W_event_management}, keyword_lower)
    THEN "Event_Catering"
    ELSE IF AnyIn({W_wholesale, W_frozen_food}, keyword_lower)
    THEN "Wholesale_Frozen"
    ELSE IF AnyIn({W_biryani, W_fast_food}, keyword_lower)
    THEN "Specialty_Food"
    ELSE IF AnyIn({W_canteen, W_mess}, keyword_lower)
    THEN "Large_Scale_Buyers"
    ELSE "Other"

\* keywords the model runs (taken from the built-in list of both files)
K_bakery_tirur == W_bakery \o <<" ","t","i","r","u","r">>
K_catering_tirur == W_catering \o <<" ","t","i","r","u","r">>
K_mess_nilambur == W_mess \o <<" ","n","i","l","a","m","b","u","r">>
K_biryani_tirur == W_biryani \o <<" ","t","i","r","u","r">>
K_hotel_tirur == W_hotel \o <<" ","t","i","r","u","r">>
K_canteen_tirur == W_canteen \o <<" ","t","i","r","u","r">>

KeywordPool ==
    <<K_bakery_tirur, K_catering_tirur, K_mess_nilambur,
      K_biryani_tirur, K_hotel_tirur, K_canteen_tirur>>

\* the towns of the built-in keyword list, in the order of every row
Towns ==
    << <<"m","a","l","a","p","p","u","r","a","m">>,
       <<"m","a","n","j","e","r","i">>,
       <<"p","e","r","i","n","t","h","a","l","m","a","n","n","a">>,
       <<"n","i","l","a","m","b","u","r">>,
       <<"t","i","r","u","r">>,
       <<"p","o","n","n","a","n","i">>,
       <<"k","o","n","d","o","t","t","y">>,
       <<"t","i","r","u","r","a","n","g","a","d","i">> >>

\* words of the built-in list that no rule of get_category_from_keyword names
W_snacks == <<"s","n","a","c","k","s">>
W_supermarket == <<"s","u","p","e","r","m","a","r","k","e","t">>
W_grocery_store == <<"g","r","o","c","e","r","y"," ","s","t","o","r","e">>

\* a group of the built-in list: the keywords "<kind> <town>" for the first n
\* towns, listed under the comment heading
Group(heading, kind, n) == [heading |-> heading, kind |-> kind, n |-> n]

\* The built-in list, group by group, under the comments that divide it.
\* scraper.py's list ends with the four "mess" keywords; scrapern.py's goes on
\* with the supermarkets and the grocery stores.
BuiltinGroups(v) ==
    << Group("Food Businesses", W_bakery, 8),
       Group("Food Businesses", W_hotel, 8),
       Group("Food Businesses", W_restaurant, 8),
       Group("Food Businesses", W_tea_shop, 8),
       Group("Food Businesses", W_snacks_shop, 8),
       Group("Event & Catering", W_catering, 8),
       Group("Event & Catering", W_event_management, 8),
       Group("Wholesale & Frozen Food", W_wholesale \o <<" ">> \o W_snacks, 8),
       Group("Wholesale & Frozen Food", W_frozen_food, 8),
       Group("Specialty Food & Biryani", W_biryani, 8),
       Group("Specialty Food & Biryani", W_fast_food, 8),
       Group("Large-Scale Buyers", W_canteen, 8),
       Group("Large-Scale Buyers", W_mess, 4) >>
    \o (IF v = "scraper" THEN <<>>
        ELSE << Group("Large-Scale Buyers - Supermarkets", W_supermarket, 8),
                Group("Large-Scale Buyers - Grocery Stores", W_grocery_store, 8) >>)

\* the entries of a group: each keyword with the heading it stands under
GroupEntries(g) ==
    [t \in 1..g.n |-> [keyword |-> g.kind \o <<" ">> \o Towns[t], heading |-> g.heading]]

RECURSIVE EntriesFrom(_, _)
EntriesFrom(groups, i) ==
    IF i > Len(groups) THEN <<>>
    ELSE GroupEntries(groups[i]) \o EntriesFrom(groups, i + 1)

\* the built-in list with its headings, and the list as the program holds it
BuiltinEntries(v) == EntriesFrom(BuiltinGroups(v), 1)
BuiltinKeywords(v) == [i \in 1..Len(BuiltinEntries(v)) |-> BuiltinEntries(v)[i].keyword]

----------------------------------------------------------------------------
(* State.                                                                  *)

VARIABLES
    \* ---- configuration of the run (never changes)
    variant,            \* which file runs: "scraper" or "scrapern"
    mode,               \* "batch": batch_scrape_keywords; "single": one call of
                        \* scrape_single_keyword (scrapern.py --single-keyword)
    keywords,           \* the keyword list given to batch_scrape_keywords
    start_from,         \* --start-from
    max_per_keyword,    \* --max-per-keyword / --max-results (Optional[int])
    max_no_change,      \* the local max_no_change of scrape_single_keyword
    script,             \* simulated panel: link count rendered at scroll cycle n
                        \* (the last entry lasts); <<>> is the free panel
    \* ---- batch_scrape_keywords
    bpc,                \* position in batch_scrape_keywords
    idx,                \* loop index of the keyword loop (0-based)
    results_summary,    \* the in-memory progress record
    progress_file,      \* progress.json
    summary_report,     \* SUMMARY_REPORT.txt
    invoked,            \* history: indices scrape_single_keyword was called for
    raised,             \* history: the non-interrupt error raised in the current
                        \* iteration of the keyword loop ("none", "orchestrator",
                        \* "save", "progress")
    interrupted,        \* history: a KeyboardInterrupt was raised
    \* ---- scrape_single_keyword
    kpc,                \* position in scrape_single_keyword
    search_for,
    max_results,
    category,           \* the local category (computed once, on entry)
    the_place,          \* the local place: <<>>, or <<the record just built>>
    browser,            \* "none", "open", "closed" (browser.close()), "stopped"
                        \* (taken down with the driver at the end of the with block)
    places,
    seen_places,
    previously_counted,
    no_change_count,
    scroll_attempts,
    found,
    stop_reason,        \* history: why the scroll loop was left
    all_links,
    listings,
    li,                 \* enumerate(listings) position, 1-based
    attempt,            \* failed click attempts made on listings[li]
    details_attempt,    \* timed-out marker waits made for listings[li]
    details_loaded,
    fate,               \* history: what became of the listing visited last
    built,              \* history: <<place>> if extract_place built a record for
                        \* that listing, <<>> if the listing was skipped before
    kret,               \* how the call ended ("none" while it runs)
    \* ---- save_places_to_csv on one output_path
    csv,                \* the file at output_path
    nsaves,             \* history: calls made so far
    last_call,          \* history: arguments and outcome of the last call
    \* ---- extract_place on one detail page
    page,               \* what the page answers to each capability call
    build               \* the call in progress: its local place and its position
                        \* in the store-info loops

cfgVars == <<variant, mode, keywords, start_from, max_per_keyword, max_no_change, script>>
batchVars == <<bpc, idx, results_summary, progress_file, summary_report, invoked, raised>>
callVars == <<search_for, max_results, category, the_place>>
resultVars == <<places, seen_places>>
scrollVars == <<previously_counted, no_change_count, scroll_attempts, found, stop_reason>>
listVars == <<all_links, listings>>
visitVars == <<li, attempt, details_attempt, details_loaded, fate, built>>
kwVars == <<kpc, callVars, browser, resultVars, scrollVars, listVars, visitVars, kret>>
saveVars == <<csv, nsaves, last_call>>
pageVars == <<page, build>>
vars == <<cfgVars, batchVars, interrupted, kwVars, saveVars, pageVars>>

----------------------------------------------------------------------------
(* The environment: what the Page capability can answer.                   *)

Outcomes == {"ok", "timeout", "error", "interrupt"}

\* A rendered result link, as the two reads of the collection loop see it:
\*   st = "ok"         get_attribute('href') returns href
\*   st = "attr_err"   get_attribute raises
\*   st = "no_parent"  href is read, the parent locator counts 0 elements
\*                     (only scrapern.py looks at that count)
Link(h, s) == [href |-> h, st |-> s]

\* the hrefs the free panel shows
Hrefs == {1, 2}

FreeLinks ==
    {Link(h, "ok") : h \in Hrefs \cup {0}}
      \cup {Link(h, "no_parent") : h \in Hrefs}
      \cup {Link(0, "attr_err")}

RECURSIVE SeqsUpTo(_, _)
SeqsUpTo(S, n) ==
    IF n = 0 THEN {<<>>}
    ELSE LET shorter == SeqsUpTo(S, n - 1)
         IN shorter \cup {Append(p, x) : p \in {q \in shorter : Len(q) = n - 1}, x \in S}

FreePanels == SeqsUpTo(FreeLinks, MaxLinks)

\* the simulated panel renders n links with the distinct hrefs 1..n
SimPanel(n) == [i \in 1..n |-> Link(i, "ok")]

\* link count the panel renders during scroll cycle n
PanelCounts(n) ==
    IF script = <<>> THEN 0..MaxLinks
    ELSE {script[IF n < Len(script) THEN n ELSE Len(script)]}

\* the links page.locator(...).all() returns after the scroll loop
PanelsNow ==
    IF script = <<>> THEN FreePanels
    ELSE {SimPanel(script[IF scroll_attempts = 0 THEN 1
                          ELSE IF scroll_attempts < Len(script) THEN scroll_attempts
                          ELSE Len(script)])}

\* What one candidate xpath of a detail view answers:
\*   "raise"   locator/count/inner_text raises
\*   "absent"  count() = 0
\*   "text"    count() > 0 and first.inner_text() returns text
Cand(k, t) == [kind |-> k, text |-> t]
Absent == Cand("absent", <<>>)
Raises == Cand("raise", <<>>)
Text(t) == Cand("text", t)

\* A detail view: the candidate answers for the three name xpaths, the three
\* address xpaths and the three phone xpaths.
View(n, a, p) == [name |-> n, address |-> a, phone |-> p]

NameLower == <<Text(<<" ", "a">>), Text(<<"A">>), Absent>>
NameUpper == <<Raises, Text(<<"A", " ">>), Text(<<"a">>)>>
NameOther == <<Absent, Absent, Text(<<"c">>)>>
NameBlank == <<Absent, Text(<<" ">>), Absent>>
AddressShown == <<Text(<<"b">>), Absent, Absent>>
AddressFails == <<Raises, Raises, Raises>>
PhoneShown == <<Absent, Text(<<"1", " ">>), Absent>>
PhoneEmpty == <<Absent, Absent, Text(<<>>)>>

DetailViews ==
    { View(NameLower, AddressShown, PhoneShown),    \* a | b | 1
      View(NameUpper, AddressShown, PhoneShown),    \* A | b | 1
      View(NameLower, AddressShown, PhoneEmpty),    \* a | b |
      View(NameOther, AddressFails, PhoneEmpty),    \* c |   |
      View(NameBlank, AddressFails, PhoneShown),    \*   |   | 1
      View(NameBlank, AddressShown, PhoneEmpty),    \*   | b |
      View(NameBlank, AddressFails, PhoneEmpty) }   \*   |   |

----------------------------------------------------------------------------
(* extract_place (the fields the orchestrator reads)                       *)

\* (variant of extract_text_multiple that lets a later candidate win)
RECURSIVE extract_text_multiple_last(_)
extract_text_multiple_last(xpaths) ==
    IF xpaths = <<>> THEN <<>>
    ELSE LET c == Head(xpaths)
             later == extract_text_multiple_last(Tail(xpaths))
         IN IF later # <<>> THEN later
            ELSE IF c.kind = "text" THEN Strip(c.text) ELSE <<>>

\* for xpath in xpaths: try: if count() > 0: text = first.inner_text().strip();
\* if text: return text / except Exception: continue; return ""
RECURSIVE extract_text_multiple(_)
extract_text_multiple(xpaths) ==
    IF xpaths = <<>> THEN <<>>
    ELSE LET c == Head(xpaths) IN
         IF c.kind = "text" /\ Strip(c.text) # <<>>
         THEN Strip(c.text)
         ELSE extract_text_multiple(Tail(xpaths))

\* (variant of extract_place that leaves the two tags at their defaults)
extract_place_untagged(name_xpaths, address_xpaths, phone_xpaths, search_keyword, cat) ==
    [ name |-> extract_text_multiple(name_xpaths),
      address |-> extract_text_multiple(address_xpaths),
      phone_number |-> extract_text_multiple(phone_xpaths),
      search_keyword |-> <<>>,
      category |-> "" ]

\* Place(search_keyword=search_keyword, category=category), then the fields
extract_place(name_xpaths, address_xpaths, phone_xpaths, search_keyword, cat) ==
    [ name |-> extract_text_multiple(name_xpaths),
      address |-> extract_text_multiple(address_xpaths),
      phone_number |-> extract_text_multiple(phone_xpaths),
      search_keyword |-> search_keyword,
      category |-> cat ]

----------------------------------------------------------------------------
(* scrape_single_keyword: the decisions of the scroll loop, of the link    *)
(* collection and of the acceptance test, as operators.                    *)

\* (variant of LoopCond that admits one cycle more)
LoopCondInclusive(n) == n <= max_scroll_attempts

\* while scroll_attempts < max_scroll_attempts
LoopCond(n) == n < max_scroll_attempts

\* (variant of CapReached that lets an exact match scroll on)
CapExceeded(maxres, f) == Truthy(maxres) /\ f > maxres[1]

\* (variant of CapReached that takes every integer, 0 too, for a cap)
CapReachedIfGiven(maxres, f) == maxres # None /\ f >= maxres[1]

\* if max_results and found >= max_results
CapReached(maxres, f) == Truthy(maxres) /\ f >= maxres[1]

\* (variant of PatienceOver that waits one unchanged reading longer)
PatienceOverStrict(ncc, maxnc) == ncc > maxnc

\* if no_change_count >= max_no_change
PatienceOver(ncc, maxnc) == ncc >= maxnc

\* (variant of ScrollDecision that keeps the counter when the count changed)
ScrollDecisionNoReset(f, prev, ncc, maxres, maxnc) ==
    IF CapReached(maxres, f)
    THEN [stop |-> "cap", prev |-> prev, ncc |-> ncc]
    ELSE IF f = prev
    THEN IF PatienceOver(ncc + 1, maxnc)
         THEN [stop |-> "stable", prev |-> prev, ncc |-> ncc + 1]
         ELSE [stop |-> "none", prev |-> f, ncc |-> ncc + 1]
    ELSE [stop |-> "none", prev |-> f, ncc |-> ncc]

\* One pass over the decisions that follow the count.  stop is "cap", "stable"
\* or "none"; a break leaves previously_counted as it was.
ScrollDecision(f, prev, ncc, maxres, maxnc) ==
    IF CapReached(maxres, f)
    THEN [stop |-> "cap", prev |-> prev, ncc |-> ncc]
    ELSE IF f = prev
    THEN IF PatienceOver(ncc + 1, maxnc)
         THEN [stop |-> "stable", prev |-> prev, ncc |-> ncc + 1]
         ELSE [stop |-> "none", prev |-> f, ncc |-> ncc + 1]
    ELSE [stop |-> "none", prev |-> f, ncc |-> 0]

Handle(h, i) == [href |-> h, pos |-> i]

\* (variant of LinkKept without the membership test)
LinkKeptAgain(l, acc, v) ==
    /\ l.st # "attr_err"
    /\ l.href # 0
    /\ (v = "scrapern" => l.st # "no_parent")

\* does the collection loop store a handle for links[i], given the dict so far
LinkKept(l, acc, v) ==
    /\ l.st # "attr_err"
    /\ l.href # 0
    /\ l.href \notin {a.href : a \in Range(acc)}
    /\ (v = "scrapern" => l.st # "no_parent")

\* unique_hrefs, as the list of its values in insertion order
RECURSIVE UniqueFrom(_, _, _, _)
UniqueFrom(links, i, acc, v) ==
    IF i > Len(links) THEN acc
    ELSE UniqueFrom(links, i + 1,
                    IF LinkKept(links[i], acc, v)
                    THEN Append(acc, Handle(links[i].href, i))
                    ELSE acc,
                    v)

unique_hrefs(links, v) == UniqueFrom(links, 1, <<>>, v)

\* (variant of Truncate that keeps every handle)
TruncateNever(l, maxres) == l

\* if max_results: listings = listings[:max_results]
Truncate(l, maxres) == IF Truthy(maxres) THEN Take(l, maxres[1]) ELSE l

Listings(links, maxres, v) == Truncate(unique_hrefs(links, v), maxres)

Bar == <<"|">>

\* (variant of PlaceKey that does not fold the case)
PlaceKeyCaseSensitive(place, v) ==
    IF v = "scraper"
    THEN Strip(place.name) \o Bar \o Strip(place.address)
    ELSE Strip(place.name) \o Bar \o Strip(place.address)
           \o Bar \o Strip(place.phone_number)

\* the local place_id of scrape_single_keyword (the dedup key)
PlaceKey(place, v) ==
    IF v = "scraper"
    THEN Strip(Lower(place.name)) \o Bar \o Strip(Lower(place.address))
    ELSE Strip(Lower(place.name)) \o Bar \o Strip(Lower(place.address))
           \o Bar \o Strip(place.phone_number)

\* scraper.py: if place.name;  scrapern.py: if name or address or phone_number
IsUseful(place, v) ==
    IF v = "scraper"
    THEN place.name # <<>>
    ELSE place.name # <<>> \/ place.address # <<>> \/ place.phone_number # <<>>

\* if place_id not in seen_places
IsNew(place_id, seen) == place_id \notin seen

\* (variant of ClickAttempts with one attempt more in scrapern.py)
ClickAttemptsSix(v) == IF v = "scraper" THEN 1 ELSE ClickRange + 1

\* (variant of AddPlace that puts the record in front)
AddPlaceInFront(ps, place) == <<place>> \o ps

\* places.append(place)
AddPlace(ps, place) == Append(ps, place)

\* can extract_place swallow a KeyboardInterrupt (bare `except:` in its body)
SwallowedInBuild(v) == IF v = "scrapern" THEN {FALSE, TRUE} ELSE {FALSE}

\* number of listing.click attempts the file makes before giving a listing up
ClickAttempts(v) == IF v = "scraper" THEN 1 ELSE ClickRange

\* number of waits for the detail marker
DetailsAttempts(v) == IF v = "scraper" THEN 1 ELSE DetailsRange

\* What the guard around wait_for_selector(result link) does with an outcome:
\* scraper.py has a bare `except:`, scrapern.py `except TimeoutError`.
WaitResultsEnds(v, o) ==
    IF o = "ok" THEN "continue"
    ELSE IF v = "scraper" THEN "no_results"
    ELSE IF o = "timeout" THEN "no_results"
    ELSE IF o = "error" THEN "page_error"
    ELSE "interrupt"

\* What one listing.click attempt leads to, n being the attempts made so far
\* (this one included).  Both files catch Exception around the click.
ClickEnds(v, o, n) ==
    IF o = "ok" THEN "details"
    ELSE IF o = "interrupt" THEN "interrupt"
    ELSE IF n < ClickAttempts(v) THEN "retry"
    ELSE "skip"

\* What one wait for the detail marker leads to, n being the waits made so far
\* (this one included).  scraper.py: bare `except:` then `continue`.
\* scrapern.py: `except TimeoutError` retries and, after the last attempt,
\* falls through to extract_place; any other Exception reaches the listing's
\* `except Exception` and skips the listing.
DetailsEnds(v, o, n) ==
    IF o = "ok" THEN "extract"
    ELSE IF v = "scraper" THEN "skip"
    ELSE IF o = "timeout" THEN (IF n < DetailsAttempts(v) THEN "retry" ELSE "extract")
    ELSE IF o = "error" THEN "skip"
    ELSE "interrupt"

----------------------------------------------------------------------------
(* scrape_single_keyword: the actions.                                     *)

\* the locals of a call that has not started
IdleCall ==
    /\ search_for = <<>> /\ max_results = None /\ category = "none"
    /\ the_place = <<>>
    /\ browser = "none" /\ places = <<>> /\ seen_places = {}
    /\ previously_counted = 0 /\ no_change_count = 0 /\ scroll_attempts = 0
    /\ found = 0 /\ stop_reason = "none"
    /\ all_links = <<>> /\ listings = <<>>
    /\ li = 0 /\ attempt = 0 /\ details_attempt = 0 /\ details_loaded = FALSE
    /\ fate = "none" /\ built = <<>> /\ kret = "none"

\* (variant of Exit without the except clause of the guarded section)
ExitRaises(ret, intr) ==
    /\ kpc' = "done"
    /\ kret' = IF ret = "page_error" THEN "exception" ELSE ret
    /\ browser' = "closed"
    /\ interrupted' = (interrupted \/ intr)

\* (variant of Exit that closes the browser on a return only, not when the
\* interrupt propagates)
ExitClosesOnReturn(ret, intr) ==
    /\ kpc' = "done"
    /\ kret' = ret
    /\ browser' = IF ret = "interrupt" THEN browser ELSE "closed"
    /\ interrupted' = (interrupted \/ intr)

\* (variant of Exit that leaves the browser as it is)
ExitLeavesOpen(ret, intr) ==
    /\ kpc' = "done"
    /\ kret' = ret
    /\ browser' = browser
    /\ interrupted' = (interrupted \/ intr)

\* leaving the guarded section: the finally clauses close the session, then
\* the call returns places (ret names why) or propagates ("interrupt")
Exit(ret, intr) ==
    /\ kpc' = "done"
    /\ kret' = ret
    /\ browser' = "closed"
    /\ interrupted' = (interrupted \/ intr)

\* with sync_playwright() as p, p.chromium.launch(...) and browser.new_page()
\* The with statement stands before every try: an Exception of the driver's
\* start leaves the call ("no_driver").
\* scraper.py: launch and new_page stand before the try too, an Exception
\* leaves the call; after a failed new_page no browser.close() is reached,
\* the end of the with block stops the driver and with it the browser
\* ("stopped").
\* scrapern.py: both stand in the outer try; the Exception is logged, the
\* finally closes the browser if there is one, and places is returned.
Launch ==
    /\ kpc = "launch"
    /\ \E o \in {"ok", "no_driver", "no_browser", "no_page", "interrupt"} :
         /\ kpc' = IF o = "ok" THEN "search" ELSE "done"
         /\ kret' = CASE o = "ok" -> "none"
                      [] o = "interrupt" -> "interrupt"
                      [] o = "no_driver" -> "exception"
                      [] OTHER -> IF variant = "scraper" THEN "exception" ELSE "setup_error"
         /\ browser' = CASE o = "ok" -> "open"
                         [] o = "no_page" -> IF variant = "scraper" THEN "stopped" ELSE "closed"
                         [] OTHER -> "none"
         /\ interrupted' = (interrupted \/ o = "interrupt")
    /\ UNCHANGED <<cfgVars, saveVars, pageVars, batchVars, callVars, resultVars, scrollVars, listVars, visitVars>>

\* page.goto, clearing the search box, fill, Enter
Search ==
    /\ kpc = "search"
    /\ \E o \in Outcomes :
         CASE o = "ok" -> kpc' = "wait_results" /\ UNCHANGED <<kret, browser, interrupted>>
           [] o = "interrupt" -> Exit("interrupt", TRUE)
           [] OTHER -> Exit("page_error", FALSE)
    /\ UNCHANGED <<cfgVars, saveVars, pageVars, batchVars, callVars, resultVars, scrollVars, listVars, visitVars>>

\* page.wait_for_selector(result link, timeout=20000)
WaitResults ==
    /\ kpc = "wait_results"
    /\ \E o \in Outcomes :
         LET e == WaitResultsEnds(variant, o) IN
         CASE e = "continue" -> kpc' = "hover" /\ UNCHANGED <<kret, browser, interrupted>>
           [] e = "interrupt" -> Exit("interrupt", TRUE)
           [] OTHER -> Exit(e, o = "interrupt")
    /\ UNCHANGED <<cfgVars, saveVars, pageVars, batchVars, callVars, resultVars, scrollVars, listVars, visitVars>>

\* hovering the first result: every failure is swallowed by a bare except
Hover ==
    /\ kpc = "hover"
    /\ \E o \in Outcomes :
         /\ kpc' = "scroll"
         /\ interrupted' = (interrupted \/ o = "interrupt")
    /\ UNCHANGED <<cfgVars, saveVars, pageVars, batchVars, callVars, resultVars, scrollVars, listVars, visitVars,
                   kret, browser>>

\* page.mouse.wheel / wait_for_timeout raises an Exception.
\* scraper.py: outside the loop's try, the outer handler ends the call.
\* scrapern.py: inside it, the loop is left.
ScrollWheelFails ==
    /\ kpc = "scroll"
    /\ LoopCond(scroll_attempts)
    /\ IF variant = "scraper"
       THEN Exit("page_error", FALSE) /\ UNCHANGED scrollVars
       ELSE /\ kpc' = "scrolled"
            /\ stop_reason' = "error"
            /\ UNCHANGED <<previously_counted, no_change_count, scroll_attempts, found,
                           kret, browser, interrupted>>
    /\ UNCHANGED <<cfgVars, saveVars, pageVars, batchVars, callVars, resultVars, listVars, visitVars>>

\* a KeyboardInterrupt during the wheel, the settle wait or the count
ScrollInterrupted ==
    /\ kpc = "scroll"
    /\ LoopCond(scroll_attempts)
    /\ \E at \in {"wheel", "count"} :
         scroll_attempts' = IF at = "wheel" THEN scroll_attempts ELSE scroll_attempts + 1
    /\ Exit("interrupt", TRUE)
    /\ UNCHANGED <<previously_counted, no_change_count, found, stop_reason>>
    /\ UNCHANGED <<cfgVars, saveVars, pageVars, batchVars, callVars, resultVars, listVars, visitVars>>

\* the scroll succeeded, page.locator(...).count() raises: break
ScrollCountFails ==
    /\ kpc = "scroll"
    /\ LoopCond(scroll_attempts)
    /\ scroll_attempts' = scroll_attempts + 1
    /\ kpc' = "scrolled"
    /\ stop_reason' = "error"
    /\ UNCHANGED <<previously_counted, no_change_count, found, kret, browser, interrupted>>
    /\ UNCHANGED <<cfgVars, saveVars, pageVars, batchVars, callVars, resultVars, listVars, visitVars>>

\* one full scroll-and-count cycle.  In scraper.py a cycle that goes on with
\* no_change_count >= 2 scrolls the panel once more inside a bare except.
ScrollCounted ==
    /\ kpc = "scroll"
    /\ LoopCond(scroll_attempts)
    /\ \E c \in PanelCounts(scroll_attempts + 1) :
         LET d == ScrollDecision(c, previously_counted, no_change_count,
                                 max_results, max_no_change)
             extra == variant = "scraper" /\ d.stop = "none" /\ d.ncc >= 2
         IN /\ scroll_attempts' = scroll_attempts + 1
            /\ found' = c
            /\ previously_counted' = d.prev
            /\ no_change_count' = d.ncc
            /\ stop_reason' = IF d.stop # "none" THEN d.stop
                              ELSE IF ~LoopCond(scroll_attempts + 1) THEN "limit"
                              ELSE stop_reason
            /\ kpc' = IF d.stop # "none" \/ ~LoopCond(scroll_attempts + 1)
                      THEN "scrolled" ELSE "scroll"
            /\ \E ox \in (IF extra THEN {"ok", "interrupt"} ELSE {"ok"}) :
                 interrupted' = (interrupted \/ ox = "interrupt")
    /\ UNCHANGED <<cfgVars, saveVars, pageVars, batchVars, callVars, resultVars, listVars, visitVars, kret, browser>>

\* the loop is left: control reaches the collection of the links.  The
\* loop's counters are not read again, the model forgets them here.
AfterScroll ==
    /\ kpc = "scrolled"
    /\ kpc' = "collect"
    /\ previously_counted' = 0 /\ no_change_count' = 0 /\ found' = 0
    \* (the simulated panel is read at the cycle it has reached)
    /\ scroll_attempts' = IF script = <<>> THEN 0 ELSE scroll_attempts
    /\ UNCHANGED stop_reason
    /\ UNCHANGED <<cfgVars, saveVars, pageVars, batchVars, callVars, resultVars, listVars, visitVars,
                   kret, browser, interrupted>>

\* all_links = page.locator(...).all(), the dict unique_hrefs, the truncation
Collect ==
    /\ kpc = "collect"
    /\ \/ \E links \in PanelsNow :
            /\ all_links' = links
            /\ listings' = Listings(links, max_results, variant)
            /\ kpc' = "listed"
            /\ UNCHANGED <<kret, browser, interrupted>>
       \/ \E o \in {"error", "interrupt"} :
            /\ IF o = "interrupt" THEN Exit("interrupt", TRUE) ELSE Exit("page_error", FALSE)
            /\ UNCHANGED listVars
    /\ scroll_attempts' = 0
    /\ stop_reason' = "none"
    /\ UNCHANGED <<cfgVars, saveVars, pageVars, batchVars, callVars, resultVars, visitVars,
                   previously_counted, no_change_count, found>>

\* total_listings = len(listings); the listing loop starts (or has nothing to do)
\* (all_links is not read again)
BeginVisits ==
    /\ kpc = "listed"
    /\ all_links' = <<>>
    /\ li' = 1
    /\ IF listings = <<>>
       THEN Exit("final", FALSE)
       ELSE kpc' = "click" /\ UNCHANGED <<kret, browser, interrupted>>
    /\ UNCHANGED <<cfgVars, saveVars, pageVars, batchVars, callVars, resultVars, scrollVars, listings,
                   attempt, details_attempt, details_loaded, fate, built>>

\* the loop moves to the next listing, or ends and the call returns places
\* (intr: a KeyboardInterrupt was swallowed on the way)
NextListing(f, b, intr) ==
    /\ li' = li + 1
    /\ built' = b
    /\ attempt' = 0
    /\ details_attempt' = 0
    /\ details_loaded' = FALSE
    /\ fate' = f
    /\ IF li + 1 > Len(listings)
       THEN Exit("final", intr)
       ELSE /\ kpc' = "click"
            /\ UNCHANGED <<kret, browser>>
            /\ interrupted' = (interrupted \/ intr)

\* one listing.click attempt on listings[li]
ClickListing ==
    /\ kpc = "click"
    /\ \E o \in Outcomes :
         LET e == ClickEnds(variant, o, attempt + 1) IN
         CASE e = "details" ->
                /\ kpc' = "details"
                /\ attempt' = 0
                /\ UNCHANGED <<li, details_attempt, details_loaded, fate, built,
                               kret, browser, interrupted>>
           [] e = "retry" ->
                /\ attempt' = attempt + 1
                /\ UNCHANGED <<kpc, li, details_attempt, details_loaded, fate, built,
                               kret, browser, interrupted>>
           [] e = "skip" -> NextListing("click_failed", <<>>, FALSE)
           [] OTHER ->
                /\ Exit("interrupt", TRUE)
                /\ UNCHANGED visitVars
    /\ UNCHANGED <<cfgVars, saveVars, pageVars, batchVars, callVars, resultVars, scrollVars, listVars>>

\* one wait for the detail marker of listings[li]
WaitDetails ==
    /\ kpc = "details"
    /\ \E o \in Outcomes :
         LET e == DetailsEnds(variant, o, details_attempt + 1) IN
         CASE e = "extract" ->
                /\ kpc' = "extract"
                /\ details_attempt' = 0
                /\ details_loaded' = (o = "ok")
                /\ UNCHANGED <<li, attempt, fate, built, kret, browser, interrupted>>
           [] e = "retry" ->
                /\ details_attempt' = details_attempt + 1
                /\ UNCHANGED <<kpc, li, attempt, details_loaded, fate, built,
                               kret, browser, interrupted>>
           [] e = "skip" -> NextListing(IF o = "timeout" THEN "details_timeout" ELSE "details_failed",
                                        <<>>, o = "interrupt")
           [] OTHER ->
                /\ Exit("interrupt", TRUE)
                /\ UNCHANGED visitVars
    /\ UNCHANGED <<cfgVars, saveVars, pageVars, batchVars, callVars, resultVars, scrollVars, listVars>>

\* place = extract_place(page, search_for, category)
\* scrapern.py: a KeyboardInterrupt inside the two bare `except:` blocks of
\* extract_place (popular times, verified badge) is swallowed there (intr).
ExtractListing ==
    /\ kpc = "extract"
    /\ \E dv \in DetailViews, intr \in SwallowedInBuild(variant) :
         /\ the_place' = <<extract_place(dv.name, dv.address, dv.phone,
                                         search_for, category)>>
         /\ interrupted' = (interrupted \/ intr)
    /\ kpc' = "accept"
    /\ UNCHANGED <<cfgVars, saveVars, pageVars, batchVars, search_for, max_results, category, browser,
                   resultVars, scrollVars, listVars, visitVars, kret>>

\* the usefulness test and the dedup test on the record just built
AcceptListing ==
    /\ kpc = "accept"
    /\ LET place_id == PlaceKey(the_place[1], variant)
       IN IF IsUseful(the_place[1], variant)
          THEN IF IsNew(place_id, seen_places)
               THEN /\ places' = AddPlace(places, the_place[1])
                    /\ seen_places' = seen_places \cup {place_id}
                    /\ NextListing("accepted", the_place, FALSE)
               ELSE /\ UNCHANGED resultVars
                    /\ NextListing("duplicate", the_place, FALSE)
          ELSE /\ UNCHANGED resultVars
               /\ NextListing("no_data", the_place, FALSE)
    /\ the_place' = <<>>
    /\ UNCHANGED <<cfgVars, saveVars, pageVars, batchVars, search_for, max_results, category,
                   scrollVars, listVars>>

\* a KeyboardInterrupt while extract_place reads the detail view
ExtractInterrupted ==
    /\ kpc = "extract"
    /\ Exit("interrupt", TRUE)
    /\ UNCHANGED <<cfgVars, saveVars, pageVars, batchVars, callVars, resultVars, scrollVars, listVars, visitVars>>

\* the part of the call that is the result-list discoverer
NextDiscoverer ==
    \/ Launch \/ Search \/ WaitResults \/ Hover
    \/ ScrollWheelFails \/ ScrollInterrupted \/ ScrollCountFails \/ ScrollCounted
    \/ AfterScroll \/ Collect

NextKeyword ==
    \/ NextDiscoverer
    \/ BeginVisits \/ ClickListing \/ WaitDetails
    \/ ExtractListing \/ ExtractInterrupted \/ AcceptListing

----------------------------------------------------------------------------
(* batch_scrape_keywords                                                   *)

\* (variant of KeywordSlice that ignores start_from)
KeywordSliceAll(kws, s) == kws

\* keywords[start_from:]
KeywordSlice(kws, s) == Drop(kws, s)

\* for idx, keyword in enumerate(keywords[start_from:], start_from):
\* is there an item for loop index i, and which keyword is it
HasKeyword(kws, s, i) == i - s + 1 \in 1..Len(KeywordSlice(kws, s))
KeywordAt(kws, s, i) == KeywordSlice(kws, s)[i - s + 1]

Categories ==
    {"Food_Businesses", "Event_Catering", "Wholesale_Frozen", "Specialty_Food",
     "Large_Scale_Buyers", "Other"}

\* results_summary['categories'] is kept as a function on Categories: a key
\* is only ever created together with a positive count (if places: ...), so
\* 0 stands for "the dict has no such key"
NoCategories == [c \in Categories |-> 0]

\* results_summary['categories'][category] += n
AddToCategory(cats, c, n) == [cats EXCEPT ![c] = @ + n]

\* a file: absent, holding a complete dump, or left half-written
NoFile == [state |-> "absent"]
PartialFile == [state |-> "partial"]
File(c) == [state |-> "written", content |-> c]

\* (variant of RecordFailure that counts the failure without naming the keyword)
RecordFailureCountOnly(rs, keyword) ==
    [rs EXCEPT !.failed = @ + 1]

\* except Exception in the keyword loop
RecordFailure(rs, keyword) ==
    [rs EXCEPT !.failed = @ + 1, !.failed_keywords = Append(@, keyword)]

\* (variant of RecordPlaces that leaves the per-category totals alone)
RecordPlacesTotalOnly(rs, keyword, n) ==
    IF n > 0 THEN [rs EXCEPT !.total_places = @ + n] ELSE rs

\* the totals of a keyword that returned places (if places: ...)
RecordPlaces(rs, keyword, n) ==
    IF n > 0
    THEN [rs EXCEPT !.total_places = @ + n,
                    !.categories = AddToCategory(@, get_category_from_keyword(keyword), n)]
    ELSE rs

\* (variant of RecordCompleted that books the keyword as failed)
RecordCompletedAsFailed(rs, keyword) ==
    [rs EXCEPT !.failed = @ + 1, !.failed_keywords = Append(@, keyword)]

\* results_summary['completed'] += 1; ['last_completed_keyword'] = keyword
RecordCompleted(rs, keyword) ==
    [rs EXCEPT !.completed = @ + 1, !.last_completed_keyword = keyword]

\* (variant of BreaksLoop in which the interrupt falls to `except Exception`)
BreaksLoopNever(ret) == FALSE

\* which handler of the keyword loop takes what the call raised:
\* `except KeyboardInterrupt: break` or `except Exception`
BreaksLoop(ret) == ret = "interrupt"

\* does an Exception of save_places_to_csv reach the keyword loop:
\* scraper.py writes unguarded, scrapern.py wraps the body in try/except
SaveRaises(v) == v = "scraper"

ResetCall ==
    /\ kpc' = "idle"
    /\ search_for' = <<>> /\ max_results' = None /\ category' = "none"
    /\ the_place' = <<>>
    /\ browser' = "none" /\ places' = <<>> /\ seen_places' = {}
    /\ previously_counted' = 0 /\ no_change_count' = 0 /\ scroll_attempts' = 0
    /\ found' = 0 /\ stop_reason' = "none"
    /\ all_links' = <<>> /\ listings' = <<>>
    /\ li' = 0 /\ attempt' = 0 /\ details_attempt' = 0 /\ details_loaded' = FALSE
    /\ fate' = "none" /\ built' = <<>> /\ kret' = "none"

\* the head of the keyword loop: the next keyword is handed to
\* scrape_single_keyword, or the list is exhausted
BatchLoop ==
    /\ bpc = "loop"
    /\ raised' = "none"
    /\ IF HasKeyword(keywords, start_from, idx)
       THEN /\ bpc' = "scrape"
            /\ invoked' = Append(invoked, idx)
            /\ kpc' = "launch"
            /\ search_for' = KeywordAt(keywords, start_from, idx)
            /\ max_results' = max_per_keyword
            /\ category' = get_category_from_keyword(search_for')
            /\ UNCHANGED the_place
       ELSE /\ bpc' = "final"
            /\ UNCHANGED <<invoked, kpc, callVars>>
    /\ UNCHANGED <<cfgVars, saveVars, pageVars, idx, results_summary, progress_file, summary_report, interrupted,
                   browser, resultVars, scrollVars, listVars, visitVars, kret>>

\* scrape_single_keyword raised: KeyboardInterrupt breaks the loop, any
\* other Exception is recorded and the loop goes on
BatchCallRaised ==
    /\ bpc = "scrape" /\ kpc = "done"
    /\ kret \in {"interrupt", "exception"}
    /\ IF BreaksLoop(kret)
       THEN bpc' = "final" /\ UNCHANGED <<idx, results_summary, raised>>
       ELSE /\ bpc' = "loop"
            /\ idx' = idx + 1
            /\ results_summary' = RecordFailure(results_summary, search_for)
            /\ raised' = "orchestrator"
    /\ ResetCall
    /\ UNCHANGED <<cfgVars, saveVars, pageVars, progress_file, summary_report, invoked, interrupted>>

\* scrape_single_keyword returned places: the two saves, the totals, the
\* completed count (lines up to last_completed_keyword)
BatchCallReturned ==
    /\ bpc = "scrape" /\ kpc = "done"
    /\ kret \notin {"interrupt", "exception"}
    /\ \E o \in (IF places # <<>> THEN {"ok", "error", "interrupt"} ELSE {"ok"}) :
         CASE o = "interrupt" ->
                /\ bpc' = "final"
                /\ interrupted' = TRUE
                /\ UNCHANGED <<idx, results_summary, raised>>
           [] o = "error" /\ SaveRaises(variant) ->
                /\ bpc' = "loop"
                /\ idx' = idx + 1
                /\ results_summary' = RecordFailure(results_summary, search_for)
                /\ raised' = "save"
                /\ UNCHANGED interrupted
           [] OTHER ->
                /\ bpc' = "progress"
                /\ results_summary' =
                     RecordCompleted(RecordPlaces(results_summary, search_for, Len(places)),
                                     search_for)
                /\ raised' = IF o = "error" THEN "save" ELSE raised
                /\ UNCHANGED <<idx, interrupted>>
    /\ ResetCall
    /\ UNCHANGED <<cfgVars, saveVars, pageVars, progress_file, summary_report, invoked>>

\* json.dump(results_summary) to progress.json, then time.sleep(2)
BatchProgress ==
    /\ bpc = "progress"
    /\ \E o \in {"ok", "error", "interrupt_write", "interrupt_sleep"} :
         CASE o = "ok" ->
                /\ progress_file' = File(results_summary)
                /\ bpc' = "loop" /\ idx' = idx + 1
                /\ UNCHANGED <<results_summary, interrupted, raised>>
           [] o = "error" ->
                /\ progress_file' \in {progress_file, PartialFile}
                /\ bpc' = "loop" /\ idx' = idx + 1
                /\ results_summary' = RecordFailure(results_summary, keywords[idx + 1])
                /\ raised' = "progress"
                /\ UNCHANGED interrupted
           [] o = "interrupt_write" ->
                /\ progress_file' \in {progress_file, PartialFile}
                /\ bpc' = "final" /\ interrupted' = TRUE
                /\ UNCHANGED <<idx, results_summary, raised>>
           [] OTHER ->
                /\ progress_file' = File(results_summary)
                /\ bpc' = "final" /\ interrupted' = TRUE
                /\ UNCHANGED <<idx, results_summary, raised>>
    /\ UNCHANGED <<cfgVars, saveVars, pageVars, summary_report, invoked, kwVars>>

\* (variant of EndTime that records no end time)
EndTimeOmitted(rs) == rs

\* results_summary['end_time'] = datetime.now().isoformat()
EndTime(rs) == [rs EXCEPT !.ended = TRUE]

\* after the loop: end_time, the last progress write, the summary report.
\* Neither write is guarded: an Exception leaves batch_scrape_keywords.
BatchFinal ==
    /\ bpc = "final"
    /\ results_summary' = EndTime(results_summary)
    /\ \E o \in {"ok", "progress_error", "report_error"} :
         /\ bpc' = IF o = "ok" THEN "done" ELSE "crashed"
         /\ progress_file' = IF o = "progress_error" THEN progress_file
                              ELSE File(results_summary')
         /\ summary_report' = IF o = "ok" THEN File(results_summary') ELSE summary_report
    /\ UNCHANGED <<cfgVars, saveVars, pageVars, idx, invoked, raised, interrupted, kwVars>>

NextBatch ==
    \/ BatchLoop \/ BatchCallRaised \/ BatchCallReturned \/ BatchProgress \/ BatchFinal

Next == NextKeyword \/ NextBatch

----------------------------------------------------------------------------
(* extract_place, field by field                                           *)

\* What a detail page answers: to the candidate xpaths of each text field,
\* to page.url, and to the count() of the popular-times and of the
\* verified-badge locator ("raise", "none" for 0, "some" for more).
Answers ==
    { <<Raises, Raises, Raises>>,
      <<Absent, Absent, Absent>>,
      <<Raises, Text(<<"x", " ">>), Absent>> }

\* the website xpaths also meet a blank first match followed by two texts,
\* and an empty first match followed by a failing and a padded one
WebsiteAnswers ==
    Answers \cup { <<Text(<<" ">>), Text(<<"y">>), Text(<<"z">>)>>,
                   <<Text(<<>>), Raises, Text(<<" ", "w">>)>> }

\* What a locator of the store-info loop answers: the locator or its count
\* raises, or it gives the elements; each element is Raises or Text(t)
Located(es) == [kind |-> "found", elements |-> es]
NotLocated == [kind |-> "raise", elements |-> <<>>]

\* the separator literal of info_raw.split: the character U+00B7 in
\* scraper.py, the two characters U+00AC U+2211 in scrapern.py
MidDot(v) == IF v = "scraper" THEN <<"U+00B7">> ELSE <<"U+00AC", "U+2211">>

Snippet(head, sep, tail) == Text(head \o sep \o tail)

\* element lists of one locator, written with the separator sep
NoElements == <<>>
MixedElements(sep) ==
    << Snippet(<<"a">>, sep, <<"D", "e", "l", "i", "v", "e", "r", "y">>),
       Raises,
       Snippet(<<"b">>, sep, <<"D", "i", "n", "e", "-", "i", "n">> \o sep \o <<"T", "a", "k", "e", "a", "w", "a", "y">>),
       Snippet(<<"c">>, sep, <<"S", "h", "o", "p">>) >>
HeadElements(sep) ==
    << Snippet(<<"S", "h", "o", "p">>, sep, <<"x">>),
       Snippet(<<"a">>, sep, <<"w", "h", "e", "e", "l", "c", "h", "a", "i", "r", " ", "s", "t", "o", "r", "e">>),
       Snippet(<<"a">>, sep, <<" ", "R", "e", "s", "e", "r", "v", "a", "t", "i", "o", "n", "s">>),
       Snippet(<<" ", "x">>, sep, <<"p", "i", "c", "k", "\n", "u", "p">>),
       Snippet(<<"a">>, sep, <<"V", "e", "r", "i", "f", "i", "e", "d">>) >>
DullElement(sep) == Snippet(<<"d">>, sep, <<"o", "p", "e", "n">>)
LongElements(sep) ==
    [i \in 1..(ElementLimitScrapern + 1) |->
        IF i <= ElementLimitScrapern THEN DullElement(sep)
        ELSE Snippet(<<"e">>, sep, <<"B", "o", "o", "k", "i", "n", "g">>)]

StoreLocators(sep) ==
    { NotLocated, Located(NoElements), Located(MixedElements(sep)),
      Located(HeadElements(sep)), Located(LongElements(sep)) }

StoreInfos(sep) == StoreLocators(sep) \X StoreLocators(sep) \X StoreLocators(sep)

NoStoreInfo == <<Located(NoElements), Located(NoElements), Located(NoElements)>>

\* no candidate of a field matches
NoText == <<Absent, Absent, Absent>>

\* pages that differ in the text fields
Pages ==
    [ name : Answers, address : Answers, website : WebsiteAnswers, phone : Answers,
      introduction : Answers, url : {"raise", "ok"},
      popular : {"raise", "none", "some"}, verified : {"raise", "none", "some"},
      store_info : {NoStoreInfo}, reviews_count : {NoText}, opens : {NoText} ]

ShownText == <<Raises, Text(<<"x", " ">>), Absent>>

\* pages that differ in the store-info snippets and in the verified badge
FlagPages ==
    [ name : {ShownText}, address : {ShownText}, website : {ShownText},
      phone : {ShownText}, introduction : {ShownText}, url : {"ok"},
      popular : {"none"}, verified : {"raise", "none", "some"},
      store_info : StoreInfos(MidDot("scraper")) \cup StoreInfos(MidDot("scrapern")),
      reviews_count : {NoText}, opens : {NoText} ]

\* raw texts of the review-count element
ReviewTexts ==
    { <<"1", ",", "2", "3", "4", " ", "r", "e", "v", "i", "e", "w", "s">>, <<"(", "5", "6", ")">>, <<"n", "o", " ", "r", "e", "v", "i", "e", "w", "s">>,
      <<",", " ", "1", "2">>, <<"0", " ", "r", "e", "v", "i", "e", "w", "s">>, <<"1", "2", " ", "o", "f", " ", "3", "4">>,
      <<",", ",">>, <<"1", ",", "2", ",", "3">>, <<"7">>,
      <<"a", ",", "b">> }

\* pages that differ in the review-count text
ReviewPages ==
    [ name : {ShownText}, address : {ShownText}, website : {ShownText},
      phone : {ShownText}, introduction : {ShownText}, url : {"ok"},
      popular : {"none"}, verified : {"none", "some"},
      store_info : {NoStoreInfo},
      reviews_count : {NoText, <<Raises, Raises, Raises>>}
                      \cup {<<Absent, Text(t), Text(<<"9">>)>> : t \in ReviewTexts},
      opens : {NoText} ]

\* the separator literal of opens_at_raw.split: the character U+22C5 in
\* scraper.py, the three characters U+201A U+00E3 U+00D6 in scrapern.py
HoursDot(v) == IF v = "scraper" THEN <<"U+22C5">> ELSE <<"U+201A", "U+00E3", "U+00D6">>

\* raw texts of the opening-hours element, written with the separator sep
\* ("U+202F" is the narrow no-break space)
HoursTexts(sep) ==
    { <<"O", "p", "e", "n", " ">> \o sep \o <<" ", "C", "l", "o", "s", "e", "s", " ", "9", "U+202F", "p", "m">>,
      <<"C", "l", "o", "s", "e", "d", " ">> \o sep \o <<" ", "O", "p", "e", "n", "s", " ", "9", "U+202F", "a", "m", " ">> \o sep \o <<" ", "M", "o", "n">>,
      <<"O", "p", "e", "n", " ">> \o sep,
      <<"O", "p", "e", "n", " ", "2", "4", "U+202F", "h", "o", "u", "r", "s">> }

\* pages that differ in the opening-hours text
HoursPages ==
    [ name : {ShownText}, address : {ShownText}, website : {ShownText},
      phone : {ShownText}, introduction : {ShownText}, url : {"ok"},
      popular : {"none", "some"}, verified : {"none", "some"},
      store_info : {NoStoreInfo}, reviews_count : {NoText},
      opens : {NoText, <<Raises, Raises, Raises>>}
              \cup {<<Absent, Text(t), Absent>> :
                       t \in HoursTexts(HoursDot("scraper"))
                              \cup HoursTexts(HoursDot("scrapern"))} ]

\* no page is being read
NoPage == [url |-> "none"]

\* no call of extract_place is in progress
NoBuild == [xpath |-> 0]

\* Place(): the creation defaults.  (scraper.py's Place has no
\* google_maps_url, popular_times, verified_business, dine_in, takeaway,
\* reservations, wheelchair_accessible or full_hours; the model keeps these
\* at the value given here.)
NewPlace ==
    [ name |-> <<>>, address |-> <<>>, website |-> <<>>, phone_number |-> <<>>,
      introduction |-> <<>>, google_maps_url |-> <<>>,
      store_shopping |-> "No", in_store_pickup |-> "No", store_delivery |-> "No",
      dine_in |-> "No", takeaway |-> "No", reservations |-> "No",
      wheelchair_accessible |-> "Unknown", reviews_count |-> None,
      opens_at |-> <<>>, full_hours |-> <<>>,
      popular_times |-> "", verified_business |-> "Unknown",
      search_keyword |-> <<>>, category |-> "" ]

NoneFound == <<"N", "o", "n", "e", " ", "F", "o", "u", "n", "d">>

\* (variant of OrNoneFound that leaves the empty text)
OrNoneFoundKeep(t) == t

\* extract_text_multiple(intro_xpaths) or "None Found"
OrNoneFound(t) == IF t = <<>> THEN NoneFound ELSE t

\* the address the browser shows for the detail page
PageUrl == <<"u">>

DigitChars == <<"0", "1", "2", "3", "4", "5", "6", "7", "8", "9">>

\* \d
IsDigit(c) == \E i \in 1..Len(DigitChars) : DigitChars[i] = c

DigitValue(c) == (CHOOSE i \in 1..Len(DigitChars) : DigitChars[i] = c) - 1

\* [\d,]
IsCountChar(c) == IsDigit(c) \/ c = ","

\* the longest prefix of s made of characters of [\d,]
RECURSIVE CountPrefix(_)
CountPrefix(s) ==
    IF s # <<>> /\ IsCountChar(Head(s)) THEN <<Head(s)>> \o CountPrefix(Tail(s))
    ELSE <<>>

\* re.findall(r'[\d,]+', s)
RECURSIVE findall_counts(_)
findall_counts(s) ==
    IF s = <<>> THEN <<>>
    ELSE IF IsCountChar(Head(s))
         THEN LET run == CountPrefix(s)
              IN <<run>> \o findall_counts(SubSeq(s, Len(run) + 1, Len(s)))
         ELSE findall_counts(Tail(s))

\* int(s) for a str of decimal digits: the value, or ValueError for ""
RECURSIVE DigitsValue(_)
DigitsValue(s) ==
    IF s = <<>> THEN 0
    ELSE 10 * DigitsValue(SubSeq(s, 1, Len(s) - 1)) + DigitValue(s[Len(s)])

int(s) == IF s = <<>> \/ \E i \in 1..Len(s) : ~IsDigit(s[i])
          THEN [raises |-> TRUE, value |-> 0]
          ELSE [raises |-> FALSE, value |-> DigitsValue(s)]

\* (variant of parse_reviews_count that gives 0 when nothing was parsed)
parse_reviews_count_zero(reviews_count_raw) ==
    LET numbers == findall_counts(reviews_count_raw) IN
    IF reviews_count_raw = <<>> \/ numbers = <<>> THEN Some(0)
    ELSE LET n == int(Without(Without(numbers[1], ","), "U+00A0"))
         IN IF n.raises THEN Some(0) ELSE Some(n.value)

\* the reviews-count block: the value place.reviews_count has after it
\* (None is the creation default)
parse_reviews_count(reviews_count_raw) ==
    IF reviews_count_raw = <<>> THEN None
    ELSE LET numbers == findall_counts(reviews_count_raw) IN
         IF numbers = <<>> THEN None
         ELSE LET temp == Without(Without(numbers[1], ","), "U+00A0")
                  n == int(temp)
              IN IF n.raises THEN None ELSE Some(n.value)

\* extract_place(page, search_keyword, category) up to the store-info loops,
\* with every field the model follows; name, address, phone_number and the
\* two tags as extract_place above gives them
extract_place_page(pg, search_keyword, cat, v) ==
    LET core == extract_place(pg.name, pg.address, pg.phone, search_keyword, cat)
        common == [NewPlace EXCEPT
                     !.name = core.name,
                     !.address = core.address,
                     !.website = extract_text_multiple(pg.website),
                     !.phone_number = core.phone_number,
                     !.search_keyword = core.search_keyword,
                     !.category = core.category,
                     !.introduction = OrNoneFound(extract_text_multiple(pg.introduction)),
                     !.reviews_count =
                         parse_reviews_count(extract_text_multiple(pg.reviews_count))]
    IN IF v = "scraper" THEN common
       ELSE [common EXCEPT
               !.google_maps_url = IF pg.url = "ok" THEN PageUrl ELSE @]

ShopWords ==
    { <<"s", "h", "o", "p">>,
      <<"s", "h", "o", "p", "p", "i", "n", "g">>,
      <<"s", "t", "o", "r", "e">> }
PickupWords ==
    { <<"p", "i", "c", "k", "u", "p">>,
      <<"p", "i", "c", "k", "-", "u", "p">>,
      <<"t", "a", "k", "e", "a", "w", "a", "y">> }
DeliveryWords ==
    { <<"d", "e", "l", "i", "v", "e", "r", "y">>,
      <<"d", "e", "l", "i", "v", "e", "r">> }
DineInWords ==
    { <<"d", "i", "n", "e", "-", "i", "n">>,
      <<"d", "i", "n", "e", " ", "i", "n">>,
      <<"d", "i", "n", "i", "n", "g">> }
ReservationWords ==
    { <<"r", "e", "s", "e", "r", "v", "a", "t", "i", "o", "n">>,
      <<"r", "e", "s", "e", "r", "v", "a", "t", "i", "o", "n", "s">>,
      <<"b", "o", "o", "k", "i", "n", "g">> }
WheelchairWords ==
    { <<"w", "h", "e", "e", "l", "c", "h", "a", "i", "r">>,
      <<"a", "c", "c", "e", "s", "s", "i", "b", "l", "e">>,
      <<"a", "c", "c", "e", "s", "s", "i", "b", "i", "l", "i", "t", "y">> }
VerifiedWords ==
    { <<"v", "e", "r", "i", "f", "i", "e", "d">>,
      <<"g", "o", "o", "g", "l", "e", " ", "v", "e", "r", "i", "f", "i", "e", "d">> }

\* (variant of Detect that writes "No" when no word is found)
DetectOrReset(flag, words, check) == IF AnyIn(words, check) THEN "Yes" ELSE "No"

\* if any(word in check for word in words): place.<flag> = "Yes"
Detect(flag, words, check) == IF AnyIn(words, check) THEN "Yes" ELSE flag

\* the body of the element loop for one element text (already stripped)
store_info_flags(place, info_raw, v) ==
    IF info_raw # <<>> /\ Contains(MidDot(v), info_raw)
    THEN LET parts == Split(info_raw, MidDot(v)) IN
         IF Len(parts) > 1
         THEN LET check == Lower(Without(parts[2], "\n"))
                  basic == [place EXCEPT
                              !.store_shopping = Detect(@, ShopWords, check),
                              !.in_store_pickup = Detect(@, PickupWords, check),
                              !.store_delivery = Detect(@, DeliveryWords, check)]
              IN IF v = "scraper" THEN basic
                 ELSE [basic EXCEPT
                         !.takeaway = Detect(@, PickupWords, check),
                         !.dine_in = Detect(@, DineInWords, check),
                         !.reservations = Detect(@, ReservationWords, check),
                         !.wheelchair_accessible = Detect(@, WheelchairWords, check),
                         !.verified_business = Detect(@, VerifiedWords, check)]
         ELSE place
    ELSE place

\* len(store_info_xpaths)
StoreInfoXpaths(v) == IF v = "scraper" THEN 2 ELSE 3

\* elements[:3] / range(min(element_count, 10))
ElementLimit(v) == IF v = "scraper" THEN ElementLimitScraper ELSE ElementLimitScrapern

\* t.replace("\u202f", "").strip()
CleanHours(t) == Strip(Without(t, "U+202F"))

\* (variant of opens_at_of that keeps the last segment)
opens_at_last(opens_at_raw, v) ==
    LET opens == Split(opens_at_raw, HoursDot(v))
    IN CleanHours(opens[Len(opens)])

\* the value the opening-hours block gives place.opens_at for a non-empty
\* opens_at_raw
opens_at_of(opens_at_raw, v) ==
    IF Contains(HoursDot(v), opens_at_raw)
    THEN LET opens == Split(opens_at_raw, HoursDot(v))
         IN IF Len(opens) > 1 THEN CleanHours(opens[2])
            ELSE CleanHours(opens_at_raw)
    ELSE CleanHours(opens_at_raw)

\* the opening-hours block (full_hours is assigned in scrapern.py only)
opening_hours(place, opens_at_raw, v) ==
    IF opens_at_raw = <<>> THEN place
    ELSE [place EXCEPT
            !.opens_at = opens_at_of(opens_at_raw, v),
            !.full_hours = IF v = "scraper" THEN @ ELSE CleanHours(opens_at_raw)]

\* extract_place after the store-info loops: the opening-hours block, then
\* the popular-times block and the verified-badge block of scrapern.py
extract_place_rest(place, pg, v) ==
    LET timed == opening_hours(place, extract_text_multiple(pg.opens), v) IN
    IF v = "scraper" THEN timed
    ELSE [timed EXCEPT
            !.popular_times = IF pg.popular = "some" THEN "Available"
                              ELSE "Not Available",
            !.verified_business = IF pg.verified = "some" THEN "Yes" ELSE @]

\* extract_place(page, search_for, category) is entered on the page at hand
\* and runs up to the store-info loops
BuildPlace ==
    /\ mode = "build"
    /\ kpc = "extract"
    /\ build' = [place |-> extract_place_page(page, search_for, category, variant),
                 xpath |-> 1, i |-> 0]
    /\ kpc' = "store_info"
    /\ UNCHANGED <<cfgVars, saveVars, page, batchVars, interrupted, callVars,
                   browser, resultVars, scrollVars, listVars, visitVars, kret>>

\* one step of `for xpath in store_info_xpaths: ... for element ...`
ScanStoreInfo ==
    /\ mode = "build"
    /\ kpc = "store_info"
    /\ build.xpath <= StoreInfoXpaths(variant)
    /\ LET loc == page.store_info[build.xpath]
           n == IF Len(loc.elements) < ElementLimit(variant)
                THEN Len(loc.elements) ELSE ElementLimit(variant)
           next_xpath == [build EXCEPT !.xpath = @ + 1, !.i = 0]
       IN IF loc.kind = "raise" \/ build.i >= n
          THEN build' = next_xpath
          ELSE LET element == loc.elements[build.i + 1] IN
               IF element.kind = "raise"
               THEN build' = IF variant = "scraper" THEN next_xpath
                             ELSE [build EXCEPT !.i = @ + 1]
               ELSE build' = [build EXCEPT
                                !.place = store_info_flags(@, Strip(element.text), variant),
                                !.i = @ + 1]
    /\ UNCHANGED <<cfgVars, saveVars, page, batchVars, interrupted, kpc, callVars,
                   browser, resultVars, scrollVars, listVars, visitVars, kret>>

\* the rest of extract_place and `return place`
FinishPlace ==
    /\ mode = "build"
    /\ kpc = "store_info"
    /\ build.xpath > StoreInfoXpaths(variant)
    /\ build' = [build EXCEPT !.place = extract_place_rest(@, page, variant)]
    /\ the_place' = <<build'.place>>
    /\ kpc' = "accept"
    /\ UNCHANGED <<cfgVars, saveVars, page, batchVars, interrupted, search_for,
                   max_results, category, browser, resultVars, scrollVars, listVars,
                   visitVars, kret>>

NextBuild == BuildPlace \/ ScanStoreInfo \/ FinishPlace

----------------------------------------------------------------------------
(* save_places_to_csv                                                      *)

\* a missing cell of a DataFrame (what read_csv gives for an empty field and
\* concat for a column one of the frames lacks)
NaN == <<"NaN">>

\* Series.fillna('')
fillna(x) == IF x = NaN THEN <<>> ELSE x

\* the columns of asdict(place) the persistence step reads; scraper.py's
\* Place has no google_maps_url
Columns(v) ==
    IF v = "scraper" THEN {"name", "address", "phone_number"}
    ELSE {"name", "address", "phone_number", "google_maps_url"}

\* a Place as save_places_to_csv sees it
Rec(n, a, p, u) == [name |-> n, address |-> a, phone_number |-> p, google_maps_url |-> u]

\* The records handed over.  The texts hold no digit, so that to_csv followed
\* by read_csv returns every non-empty text as it was written.
SaveRecords(v) ==
    LET u1 == IF v = "scraper" THEN NaN ELSE <<"u">>
        u2 == IF v = "scraper" THEN NaN ELSE <<"v">>
    IN { Rec(<<"a">>, <<"b">>, <<"p">>, u1),
         Rec(<<"A", " ">>, <<"b">>, <<"p">>, u1),
         Rec(<<"a">>, <<"b">>, <<"q">>, u1),
         Rec(<<"a">>, <<"b">>, <<"p">>, u2),
         Rec(<<"c">>, <<>>, <<>>, u1),
         Rec(<<"d">>, <<"b">>, <<"p">>, u1) }

\* the lists scrape_single_keyword can return: useful records, no two with
\* the same place_id
ReturnedLists(v) ==
    { l \in SeqsUpTo(SaveRecords(v), SaveLen) :
        /\ \A i \in 1..Len(l) : IsUseful(l[i], v)
        /\ \A i, j \in 1..Len(l) : i < j => PlaceKey(l[i], v) # PlaceKey(l[j], v) }

\* a DataFrame: its columns and its rows (a row has a cell for every column
\* of Columns("scrapern"); the cells of a column the frame lacks are NaN)
Frame(cols, rows) == [cols |-> cols, rows |-> rows]

\* pd.DataFrame([asdict(place) for place in places])
DataFrame(ps, v) == Frame(Columns(v), ps)

\* the file at output_path
NoCsv == [state |-> "absent"]
Table(cols, rows) == [state |-> "table", cols |-> cols, rows |-> rows]
\* rows were appended under a header that does not name their columns
Ragged == [state |-> "ragged"]

\* what a cell is written as: NaN and '' both give an empty field
Written(x) == IF x = NaN THEN <<>> ELSE x

\* what a field is read back as: an empty field gives NaN
ReadBack(x) == IF x = <<>> THEN NaN ELSE x

\* df.to_csv(output_path, mode="w", header=True)
to_csv(df) ==
    Table(df.cols,
          [i \in 1..Len(df.rows) |->
             [f \in Columns("scrapern") |->
                IF f \in df.cols THEN Written(df.rows[i][f]) ELSE <<>>]])

\* pd.read_csv(output_path)
read_csv(file) ==
    Frame(file.cols,
          [i \in 1..Len(file.rows) |->
             [f \in Columns("scrapern") |->
                IF f \in file.cols THEN ReadBack(file.rows[i][f]) ELSE NaN]])

\* pd.concat([existing_df, df], ignore_index=True)
concat(a, b) == Frame(a.cols \cup b.cols, a.rows \o b.rows)

\* the third column of the duplicate_key
KeyColumn(v) == IF v = "scraper" THEN "phone_number" ELSE "google_maps_url"

\* combined_df['duplicate_key'] of one row
duplicate_key(row, v) ==
    Strip(Lower(fillna(row.name))) \o Bar \o Strip(Lower(fillna(row.address)))
      \o Bar \o Strip(fillna(row[KeyColumn(v)]))

\* the rows drop_duplicates(keep='first') keeps, given the rows' keys
KeptRows(keys) == {i \in 1..Len(keys) : \A j \in 1..(i - 1) : keys[j] # keys[i]}

RECURSIVE Pick(_, _, _)
Pick(rows, keep, i) ==
    IF i > Len(rows) THEN <<>>
    ELSE (IF i \in keep THEN <<rows[i]>> ELSE <<>>) \o Pick(rows, keep, i + 1)

\* combined_df.drop_duplicates(subset=['duplicate_key'], keep='first')
drop_duplicates(df, v) ==
    Frame(df.cols,
          Pick(df.rows, KeptRows([i \in 1..Len(df.rows) |-> duplicate_key(df.rows[i], v)]), 1))

\* df[column].nunique(): the distinct values of a column, NaN not counted
nunique(df, c) == Cardinality({df.rows[i][c] : i \in 1..Len(df.rows)} \ {NaN})

\* scraper.py, on a write that is not an append: the columns whose values
\* are all the same are dropped; scrapern.py keeps every column
DropConstant(df, v) ==
    IF v = "scrapern" THEN df
    ELSE LET kept == {c \in df.cols : nunique(df, c) > 1}
         IN Frame(kept, [i \in 1..Len(df.rows) |->
                           [f \in Columns("scrapern") |->
                              IF f \in kept THEN df.rows[i][f] ELSE NaN]])

\* arguments and outcome of a call
Call(ps, app, out) == [places |-> ps, append |-> app, outcome |-> out]
NoCall == Call(<<>>, FALSE, "none")

NoSave == csv = NoCsv /\ nsaves = 0 /\ last_call = NoCall

\* save_places_to_csv(places, output_path, append), file operations answering
\* o: "ok", "read_error" (the merge block raises), "write_error" (to_csv raises)
save_places_to_csv(file, ps, app, v, o) ==
    IF ps = <<>> THEN [file |-> file, outcome |-> "nothing"]
    ELSE LET df == DataFrame(ps, v)
             merging == app /\ file.state # "absent"
         IN IF merging /\ file.state = "table" /\ o # "read_error"
            THEN IF o = "write_error"
                 THEN [file |-> file, outcome |-> "error"]
                 ELSE [file |-> to_csv(DropConstant(
                                   drop_duplicates(concat(read_csv(file), df), v), v)),
                       outcome |-> "merged"]
            ELSE IF o = "write_error"
            THEN [file |-> file, outcome |-> "error"]
            ELSE IF merging
            \* the merge block raised, append is still True: the rows are
            \* appended without a header
            THEN [file |-> IF file.state = "table" /\ file.cols = df.cols
                           THEN Table(file.cols, file.rows \o to_csv(df).rows)
                           ELSE Ragged,
                  outcome |-> "appended"]
            ELSE IF app
            \* append to a path that holds no file: mode "a" with a header
            THEN [file |-> to_csv(df), outcome |-> "written"]
            ELSE [file |-> to_csv(DropConstant(df, v)), outcome |-> "written"]

\* one call of save_places_to_csv on the path
Save ==
    /\ mode = "save"
    /\ nsaves < MaxSaves
    /\ \E ps \in ReturnedLists(variant), app \in BOOLEAN,
          o \in {"ok", "read_error", "write_error"} :
         LET r == save_places_to_csv(csv, ps, app, variant, o)
         IN /\ csv' = r.file
            /\ last_call' = Call(ps, app, r.outcome)
    /\ nsaves' = nsaves + 1
    /\ UNCHANGED <<cfgVars, batchVars, interrupted, kwVars, pageVars>>

\* the entry of scrape_single_keyword for the keyword at the loop index:
\* category = get_category_from_keyword(search_for)
Classify ==
    /\ mode = "classify"
    /\ kpc = "idle"
    /\ search_for' = KeywordAt(keywords, start_from, idx)
    /\ category' = get_category_from_keyword(search_for')
    /\ kpc' = "launch"
    /\ UNCHANGED <<cfgVars, saveVars, pageVars, batchVars, interrupted, max_results,
                   the_place, browser, resultVars, scrollVars, listVars, visitVars, kret>>

----------------------------------------------------------------------------
(* Initial states.                                                         *)

\* the patience of the file that runs
MaxNoChange(v) == IF v = "scraper" THEN MaxNoChangeScraper ELSE MaxNoChangeScrapern

NewSummary(kws) ==
    [ total_keywords |-> Len(kws), completed |-> 0, failed |-> 0, total_places |-> 0,
      categories |-> NoCategories, last_completed_keyword |-> <<>>, failed_keywords |-> <<>>,
      ended |-> FALSE ]

\* one call scrape_single_keyword(keyword, max_results) on the free panel
InitSingle ==
    /\ mode = "single"
    /\ variant \in Variants
    /\ NoSave /\ page = NoPage /\ build = NoBuild
    /\ keywords = <<K_bakery_tirur>>
    /\ start_from = 0
    /\ max_per_keyword \in {None} \cup {Some(n) : n \in 0..MaxCap}
    /\ max_no_change = MaxNoChange(variant)
    /\ script = <<>>
    /\ bpc = "single" /\ idx = 0
    /\ results_summary = NewSummary(keywords)
    /\ progress_file = NoFile /\ summary_report = NoFile
    /\ invoked = <<0>> /\ raised = "none" /\ interrupted = FALSE
    /\ kpc = "launch"
    /\ search_for = keywords[1] /\ max_results = max_per_keyword
    /\ category = get_category_from_keyword(search_for)
    /\ the_place = <<>>
    /\ browser = "none" /\ places = <<>> /\ seen_places = {}
    /\ previously_counted = 0 /\ no_change_count = 0 /\ scroll_attempts = 0
    /\ found = 0 /\ stop_reason = "none"
    /\ all_links = <<>> /\ listings = <<>>
    /\ li = 0 /\ attempt = 0 /\ details_attempt = 0 /\ details_loaded = FALSE
    /\ fate = "none" /\ built = <<>> /\ kret = "none"

\* batch_scrape_keywords(keywords, max_per_keyword, start_from); every
\* keyword's panel renders BatchLinks links
InitBatch ==
    /\ mode = "batch"
    /\ variant \in Variants
    /\ NoSave /\ page = NoPage /\ build = NoBuild
    /\ keywords = Take(KeywordPool, NumKeywords)
    /\ start_from \in 0..(NumKeywords + 1)
    /\ max_per_keyword \in {None, Some(1)}
    /\ max_no_change = MaxNoChange(variant)
    /\ script = <<BatchLinks>>
    /\ bpc = "loop" /\ idx = start_from
    /\ results_summary = NewSummary(keywords)
    /\ progress_file = NoFile /\ summary_report = NoFile
    /\ invoked = <<>> /\ raised = "none" /\ interrupted = FALSE
    /\ kpc = "idle"
    /\ IdleCall

Init == InitSingle \/ InitBatch

Spec == Init /\ [][Next]_vars

\* A batch run from the first keyword, one record per keyword at most
InitLive ==
    /\ mode = "batch"
    /\ variant \in Variants
    /\ NoSave /\ page = NoPage /\ build = NoBuild
    /\ keywords = Take(KeywordPool, LiveKeywords)
    /\ start_from = 0
    /\ max_per_keyword = Some(1)
    /\ max_no_change = MaxNoChange(variant)
    /\ script = <<BatchLinks>>
    /\ bpc = "loop" /\ idx = start_from
    /\ results_summary = NewSummary(keywords)
    /\ progress_file = NoFile /\ summary_report = NoFile
    /\ invoked = <<>> /\ raised = "none" /\ interrupted = FALSE
    /\ kpc = "idle"
    /\ IdleCall

\* The batch as the interpreter runs it: a sequential program whose next
\* statement is always executed (every wait in the code has a timeout, every
\* loop a bound), so a step that can be taken is eventually taken.
SpecBatch == InitLive /\ [][Next]_vars /\ WF_vars(Next)

\* One call of scrape_single_keyword on a panel of VisitLinks listings with
\* distinct hrefs, no cap.
InitVisit ==
    /\ mode = "single"
    /\ variant \in Variants
    /\ NoSave /\ page = NoPage /\ build = NoBuild
    /\ keywords = <<K_bakery_tirur>>
    /\ start_from = 0
    /\ max_per_keyword = None
    /\ max_no_change = MaxNoChange(variant)
    /\ script = <<VisitLinks>>
    /\ bpc = "single" /\ idx = 0
    /\ results_summary = NewSummary(keywords)
    /\ progress_file = NoFile /\ summary_report = NoFile
    /\ invoked = <<0>> /\ raised = "none" /\ interrupted = FALSE
    /\ kpc = "launch"
    /\ search_for = keywords[1] /\ max_results = max_per_keyword
    /\ category = get_category_from_keyword(search_for)
    /\ the_place = <<>>
    /\ browser = "none" /\ places = <<>> /\ seen_places = {}
    /\ previously_counted = 0 /\ no_change_count = 0 /\ scroll_attempts = 0
    /\ found = 0 /\ stop_reason = "none"
    /\ all_links = <<>> /\ listings = <<>>
    /\ li = 0 /\ attempt = 0 /\ details_attempt = 0 /\ details_loaded = FALSE
    /\ fate = "none" /\ built = <<>> /\ kret = "none"

SpecVisit == InitVisit /\ [][NextKeyword]_vars

\* Calls of save_places_to_csv on one path that holds no file at first
InitSave ==
    /\ mode = "save"
    /\ variant \in Variants
    /\ NoSave /\ page = NoPage /\ build = NoBuild
    /\ keywords = <<>>
    /\ start_from = 0
    /\ max_per_keyword = None
    /\ max_no_change = MaxNoChange(variant)
    /\ script = <<>>
    /\ bpc = "off" /\ idx = 0
    /\ results_summary = NewSummary(keywords)
    /\ progress_file = NoFile /\ summary_report = NoFile
    /\ invoked = <<>> /\ raised = "none" /\ interrupted = FALSE
    /\ kpc = "idle"
    /\ IdleCall

SpecSave == InitSave /\ [][Save]_vars

\* main(): the built-in list is handed to batch_scrape_keywords; the keyword
\* at loop index idx is about to be handed to scrape_single_keyword
InitKeywords ==
    /\ mode = "classify"
    /\ variant \in Variants
    /\ NoSave /\ page = NoPage /\ build = NoBuild
    /\ keywords = BuiltinKeywords(variant)
    /\ start_from = 0
    /\ max_per_keyword = None
    /\ max_no_change = MaxNoChange(variant)
    /\ script = <<>>
    /\ bpc = "scrape" /\ idx \in 0..(Len(keywords) - 1)
    /\ results_summary = NewSummary(keywords)
    /\ progress_file = NoFile /\ summary_report = NoFile
    /\ invoked = <<>> /\ raised = "none" /\ interrupted = FALSE
    /\ kpc = "idle"
    /\ IdleCall

SpecKeywords == InitKeywords /\ [][Classify]_vars

\* extract_place called on a detail page, for every page of the set pages
InitBuildOn(pages) ==
    /\ mode = "build"
    /\ variant \in Variants
    /\ NoSave /\ page \in pages /\ build = NoBuild
    /\ keywords = <<K_bakery_tirur>>
    /\ start_from = 0
    /\ max_per_keyword = None
    /\ max_no_change = MaxNoChange(variant)
    /\ script = <<>>
    /\ bpc = "off" /\ idx = 0
    /\ results_summary = NewSummary(keywords)
    /\ progress_file = NoFile /\ summary_report = NoFile
    /\ invoked = <<>> /\ raised = "none" /\ interrupted = FALSE
    /\ kpc = "extract"
    /\ search_for = keywords[1] /\ max_results = None
    /\ category = get_category_from_keyword(search_for)
    /\ the_place = <<>>
    /\ browser = "open" /\ places = <<>> /\ seen_places = {}
    /\ previously_counted = 0 /\ no_change_count = 0 /\ scroll_attempts = 0
    /\ found = 0 /\ stop_reason = "none"
    /\ all_links = <<>> /\ listings = <<>>
    /\ li = 0 /\ attempt = 0 /\ details_attempt = 0 /\ details_loaded = FALSE
    /\ fate = "none" /\ built = <<>> /\ kret = "none"

InitBuild == InitBuildOn(Pages)

\* extract_place is straight-line code over bounded loops: it is run to its end
SpecBuild == InitBuild /\ [][NextBuild]_vars /\ WF_vars(NextBuild)

\* extract_place on the pages that differ in their store-info snippets
InitScan == InitBuildOn(FlagPages)

SpecScan == InitScan /\ [][NextBuild]_vars

\* extract_place on the pages that differ in their review-count text
InitReviews == InitBuildOn(ReviewPages)

SpecReviews == InitReviews /\ [][NextBuild]_vars

\* extract_place on the pages that differ in their opening-hours text
InitHours == InitBuildOn(HoursPages)

SpecHours == InitHours /\ [][NextBuild]_vars

----------------------------------------------------------------------------
(* The discoverer on a simulated panel, with the patience as a parameter.  *)
(* max_no_change is a literal of each file (5 and 8); this specification   *)
(* runs the same loop for every patience from 5 to 8.                      *)

\* link counts of the simulated panel, cycle by cycle
Scenario == <<5, 9, 12, 12, 12, 12, 12, 12>>
\* a panel that grows on every cycle
Growing == <<3, 6, 9, 12, 15, 18>>

InitTuned ==
    /\ mode = "single"
    /\ variant \in Variants
    /\ NoSave /\ page = NoPage /\ build = NoBuild
    /\ keywords = <<K_bakery_tirur>>
    /\ start_from = 0
    /\ max_per_keyword \in {None, Some(10), Some(12)}
    /\ max_no_change \in MaxNoChangeScraper..MaxNoChangeScrapern
    /\ script \in {Scenario, Growing}
    /\ bpc = "single" /\ idx = 0
    /\ results_summary = NewSummary(keywords)
    /\ progress_file = NoFile /\ summary_report = NoFile
    /\ invoked = <<0>> /\ raised = "none" /\ interrupted = FALSE
    /\ kpc = "launch"
    /\ search_for = keywords[1] /\ max_results = max_per_keyword
    /\ category = get_category_from_keyword(search_for)
    /\ the_place = <<>>
    /\ browser = "none" /\ places = <<>> /\ seen_places = {}
    /\ previously_counted = 0 /\ no_change_count = 0 /\ scroll_attempts = 0
    /\ found = 0 /\ stop_reason = "none"
    /\ all_links = <<>> /\ listings = <<>>
    /\ li = 0 /\ attempt = 0 /\ details_attempt = 0 /\ details_loaded = FALSE
    /\ fate = "none" /\ built = <<>> /\ kret = "none"

SpecTuned == InitTuned /\ [][NextDiscoverer]_vars

\* panels for the stability rule: a count that falls after a short plateau,
\* one that rises after a plateau of seven unchanged readings, one that
\* shows no link at all
Dip == <<3, 3, 3, 3, 3, 2>>
Wave == <<4, 4, 4, 4, 4, 4, 4, 4, 5>>
Bare == <<0>>

\* the discoverer of each file, with its own patience, on these panels
InitStable ==
    /\ mode = "single"
    /\ variant \in Variants
    /\ NoSave /\ page = NoPage /\ build = NoBuild
    /\ keywords = <<K_bakery_tirur>>
    /\ start_from = 0
    /\ max_per_keyword \in {None, Some(4)}
    /\ max_no_change = MaxNoChange(variant)
    /\ script \in {Scenario, Dip, Wave, Bare}
    /\ bpc = "single" /\ idx = 0
    /\ results_summary = NewSummary(keywords)
    /\ progress_file = NoFile /\ summary_report = NoFile
    /\ invoked = <<0>> /\ raised = "none" /\ interrupted = FALSE
    /\ kpc = "launch"
    /\ search_for = keywords[1] /\ max_results = max_per_keyword
    /\ category = get_category_from_keyword(search_for)
    /\ the_place = <<>>
    /\ browser = "none" /\ places = <<>> /\ seen_places = {}
    /\ previously_counted = 0 /\ no_change_count = 0 /\ scroll_attempts = 0
    /\ found = 0 /\ stop_reason = "none"
    /\ all_links = <<>> /\ listings = <<>>
    /\ li = 0 /\ attempt = 0 /\ details_attempt = 0 /\ details_loaded = FALSE
    /\ fate = "none" /\ built = <<>> /\ kret = "none"

SpecStable == InitStable /\ [][NextDiscoverer]_vars

----------------------------------------------------------------------------
(* Properties.                                                             *)

\* the panel of the termination scenario, read without a cap
C1_Case == script = Scenario /\ max_results = None

C2_CapPrecedence ==
    (Truthy(max_results) /\ kpc \in {"scroll", "scrolled"})
        => IF kpc = "scrolled" /\ stop_reason = "cap"
           THEN found >= max_results[1]
           ELSE found < max_results[1]

\* C2: a growing count meets the cap exactly and the loop stops in that cycle
C2_Witness ==
    /\ Truthy(max_results)
    /\ kpc = "scrolled" /\ stop_reason = "cap"
    /\ found = max_results[1]
    /\ scroll_attempts > 1 /\ no_change_count = 0
    /\ previously_counted < found

\* C3: whatever the panel shows, at most 50 scroll-and-count cycles are made:
\* the loop is never running with 50 cycles done, the counter never passes 50,
\* a stop for the limit is a stop at cycle 50, and once the loop is left the
\* next step is the collection of the links.
C3_ScrollBound ==
    /\ [](/\ scroll_attempts <= max_scroll_attempts
          /\ (kpc = "scroll" => scroll_attempts < max_scroll_attempts)
          /\ (kpc = "scrolled" /\ stop_reason = "limit"
                => scroll_attempts = max_scroll_attempts))
    /\ [][kpc = "scrolled" => kpc' = "collect"]_vars

\* C3: without a cap the count changed on the 50th cycle too, the loop is left
C3_Witness ==
    /\ max_results = None
    /\ kpc = "scrolled" /\ stop_reason = "limit"
    /\ scroll_attempts = max_scroll_attempts
    /\ no_change_count = 0

\* C4, as stated: the collection holds, for every href among the rendered
\* links, the handle of the href's first occurrence, in display order, cut
\* to the cap.
C4_FirstOccurrence ==
    kpc = "listed" =>
        LET first(i) == /\ all_links[i].href # 0
                        /\ \A j \in 1..(i - 1) : all_links[j].href # all_links[i].href
            firsts == {i \in 1..Len(all_links) : first(i)}
            n == IF Truthy(max_results) /\ max_results[1] < Cardinality(firsts)
                 THEN max_results[1] ELSE Cardinality(firsts)
        IN /\ Len(listings) = n
           /\ \A k \in 1..Len(listings) :
                /\ listings[k].pos \in firsts
                /\ listings[k].href = all_links[listings[k].pos].href
                /\ Cardinality({i \in firsts : i < listings[k].pos}) = k - 1

\* C4, amended: a link is usable when its href can be read and is not empty
\* and, in scrapern.py, its parent element is found.  The collection holds at
\* most one handle per href; the handle kept for an href is that of its first
\* usable occurrence (an unusable link does not block a later link with the
\* same href); the handles are in display order, cut to the cap.
C4_FirstUsableOccurrence ==
    kpc = "listed" =>
        LET usable(i) == /\ all_links[i].st # "attr_err"
                         /\ all_links[i].href # 0
                         /\ (variant = "scrapern" => all_links[i].st # "no_parent")
            first(i) == /\ usable(i)
                        /\ \A j \in 1..(i - 1) :
                             usable(j) => all_links[j].href # all_links[i].href
            firsts == {i \in 1..Len(all_links) : first(i)}
            n == IF Truthy(max_results) /\ max_results[1] < Cardinality(firsts)
                 THEN max_results[1] ELSE Cardinality(firsts)
        IN /\ Len(listings) = n
           /\ \A k \in 1..Len(listings) :
                /\ listings[k].pos \in firsts
                /\ listings[k].href = all_links[listings[k].pos].href
                /\ Cardinality({i \in firsts : i < listings[k].pos}) = k - 1
           /\ \A k, m \in 1..Len(listings) :
                listings[k].href = listings[m].href => k = m

\* C4: an href shown twice and a second href, the cap cuts the second one off
C4_Witness ==
    /\ kpc = "listed"
    /\ all_links = <<Link(1, "ok"), Link(1, "ok"), Link(2, "ok")>>
    /\ max_results = Some(1)
    /\ listings = <<Handle(1, 1)>>

\* C5: no two records of the accumulating result set agree on the parts of
\* the dedup key: the trimmed lowercased name, the trimmed lowercased address
\* and, in scrapern.py, the trimmed phone number.  (A record offered with a
\* key already present is therefore never added.)
C5_UniqueKeys ==
    \A i, j \in 1..Len(places) :
        ( /\ Strip(Lower(places[i].name)) = Strip(Lower(places[j].name))
          /\ Strip(Lower(places[i].address)) = Strip(Lower(places[j].address))
          /\ (variant = "scrapern" =>
                Strip(places[i].phone_number) = Strip(places[j].phone_number)) )
        => i = j

\* C5: two listings were visited, the second one's record had the key of the
\* first and the result set holds one record
C5_Witness ==
    /\ fate = "duplicate"
    /\ li = 3
    /\ Len(places) = 1
    /\ built # <<>> /\ PlaceKey(built[1], variant) = PlaceKey(places[1], variant)

\* C6, as stated: a built record with a non-empty name, address or phone is
\* accepted (or is a duplicate of an accepted one), a record with all three
\* empty is dropped.
C6_UsefulRetained ==
    built # <<>> =>
        LET place == built[1]
            some == place.name # <<>> \/ place.address # <<>> \/ place.phone_number # <<>>
        IN /\ (some => fate \in {"accepted", "duplicate"})
           /\ (~some => fate = "no_data")
           /\ (fate = "accepted" => places # <<>> /\ places[Len(places)] = place)

\* C7: when no result link appears, the call returns an empty result set,
\* with no scroll cycle made, no link collected and no listing visited, and
\* the batch loop books the keyword as completed: completed grows by one,
\* failed and failed_keywords stay as they are.
C7_NoResultsCompleted ==
    /\ []((kpc = "done" /\ kret = "no_results")
            => /\ places = <<>>
               /\ scroll_attempts = 0 /\ found = 0
               /\ all_links = <<>> /\ listings = <<>>
               /\ li = 0 /\ fate = "none" /\ built = <<>>)
    /\ [][(mode = "batch" /\ kpc = "done" /\ kret = "no_results")
            => /\ results_summary'.completed = results_summary.completed + 1
               /\ results_summary'.last_completed_keyword = search_for
               /\ results_summary'.failed = results_summary.failed
               /\ results_summary'.failed_keywords = results_summary.failed_keywords
               /\ results_summary'.total_places = results_summary.total_places]_vars

\* C7: a keyword of a batch run has just returned for want of results
C7_Witness ==
    /\ mode = "batch" /\ bpc = "scrape"
    /\ kpc = "done" /\ kret = "no_results"
    /\ results_summary.completed = 1

\* C8: a listing is clicked at most 5 times (fewer than 5 failed attempts
\* precede any attempt); when the last attempt fails the listing adds no
\* record and the loop goes on with the next handle, or ends normally when
\* there is none, keeping the records of the other listings.
C8_ClickRetry ==
    /\ [](attempt < ClickRange)
    /\ [][(kpc = "click" /\ fate' = "click_failed" /\ li' = li + 1)
            => /\ attempt + 1 <= ClickRange
               /\ places' = places /\ seen_places' = seen_places
               /\ listings' = listings
               /\ IF li < Len(listings)
                  THEN kpc' = "click"
                  ELSE kpc' = "done" /\ kret' = "final"]_vars

\* C8: scrapern.py gave a listing up after its attempts and the call still
\* ended normally with the record of another listing
C8_Witness ==
    /\ variant = "scrapern"
    /\ fate = "click_failed"
    /\ kpc = "done" /\ kret = "final"
    /\ Len(places) = 1 /\ Len(listings) = 2

\* C9, as stated: no listing is skipped because its detail marker timed out.
C9_TimeoutStillExtracts == fate # "details_timeout"

\* C10: the indices handed to scrape_single_keyword are start_from,
\* start_from + 1, ... in this order, each once and each an index of the
\* list, so none is below start_from; the keyword handed over is the one at
\* that index; a loop that ends without an interruption has handed over
\* every index from start_from on.
C10_Resume ==
    mode = "batch" =>
        /\ \A k \in 1..Len(invoked) :
             /\ invoked[k] = start_from + k - 1
             /\ invoked[k] < Len(keywords)
        /\ (bpc = "scrape" =>
              /\ invoked # <<>> /\ invoked[Len(invoked)] = idx
              /\ search_for = keywords[idx + 1])
        /\ ((bpc \in {"final", "done", "crashed"} /\ ~interrupted)
              => Len(invoked) = IF start_from < Len(keywords)
                                THEN Len(keywords) - start_from ELSE 0)

\* C10: a run resumed at index 1 has ended after every later keyword
C10_Witness ==
    /\ mode = "batch" /\ bpc = "done" /\ ~interrupted
    /\ start_from = 1
    /\ Len(invoked) = Len(keywords) - 1
    /\ Len(invoked) >= 2

\* C11, as stated: after an iteration in which a non-interrupt error was
\* raised (by the orchestrator, by a save, by the progress write) the keyword
\* is the last entry of failed_keywords and the loop is at its head; the loop
\* is left only with the list exhausted or after an interruption.
C11_EveryErrorBooked ==
    mode = "batch" =>
        /\ (bpc = "loop" /\ raised # "none"
              => /\ results_summary.failed_keywords # <<>>
                 /\ results_summary.failed_keywords[Len(results_summary.failed_keywords)]
                      = keywords[idx])
        /\ (bpc \in {"final", "done", "crashed"}
              => interrupted \/ idx >= Len(keywords))

\* C11, amended: every non-interrupt error that reaches the keyword loop's
\* handler (an Exception leaving scrape_single_keyword, a save error in
\* scraper.py, a progress write error) appends the keyword to failed_keywords
\* and the loop goes on; a save error in scrapern.py is caught and logged
\* inside save_places_to_csv, the keyword is booked as completed and not as
\* failed.  The loop is left only with the list exhausted or after an
\* interruption.
C11_ErrorsReachingLoopBooked ==
    mode = "batch" =>
        /\ (bpc = "loop" /\ raised # "none"
              => IF variant = "scrapern" /\ raised = "save"
                 THEN /\ results_summary.last_completed_keyword = keywords[idx]
                      /\ \A k \in 1..Len(results_summary.failed_keywords) :
                           results_summary.failed_keywords[k] # keywords[idx]
                 ELSE /\ results_summary.failed_keywords # <<>>
                      /\ results_summary.failed_keywords[Len(results_summary.failed_keywords)]
                           = keywords[idx])
        /\ (bpc \in {"final", "done", "crashed"}
              => interrupted \/ idx >= Len(keywords))

\* C11: the orchestrator raised for a keyword that is not the last one; the
\* keyword is booked as failed and the loop is at its head for the next one
C11_Witness ==
    /\ mode = "batch" /\ bpc = "loop"
    /\ raised = "orchestrator"
    /\ idx < Len(keywords)
    /\ results_summary.failed_keywords = <<keywords[idx]>>

\* C12, as stated: whenever the loop is between two keywords, or begins a
\* keyword after the first one, progress.json holds the in-memory record.
C12_ProgressPersisted ==
    (mode = "batch" /\ invoked # <<>>
       /\ (bpc = "loop" \/ (bpc = "scrape" /\ Len(invoked) > 1)))
        => progress_file = File(results_summary)

\* C13, as stated: once a KeyboardInterrupt has been raised in a batch run,
\* scrape_single_keyword is called for no further keyword.
C13_InterruptStopsBatch ==
    [][(mode = "batch" /\ interrupted) => invoked' = invoked]_vars

\* C14: the step by which an interruption leaves the keyword loop changes
\* neither failed nor failed_keywords nor completed nor
\* last_completed_keyword; a call that ends with a KeyboardInterrupt is
\* followed by that step; and the keyword in progress at the interruption is
\* not in failed_keywords afterwards.
C14_InterruptNotAFailure ==
    /\ [][(mode = "batch" /\ bpc \in {"scrape", "progress"}
             /\ (bpc' = "final" \/ (kpc = "done" /\ kret = "interrupt")))
            => /\ bpc' = "final"
               /\ results_summary'.failed = results_summary.failed
               /\ results_summary'.failed_keywords = results_summary.failed_keywords
               /\ results_summary'.completed = results_summary.completed
               /\ results_summary'.last_completed_keyword
                    = results_summary.last_completed_keyword]_vars
    /\ []((mode = "batch" /\ bpc = "final" /\ idx < Len(keywords))
            => \A k \in 1..Len(results_summary.failed_keywords) :
                 results_summary.failed_keywords[k] # keywords[idx + 1])

\* C14: one keyword completed, one failed, the third was interrupted
C14_Witness ==
    /\ mode = "batch" /\ bpc = "final" /\ interrupted
    /\ idx = 2 /\ Len(keywords) > 2
    /\ results_summary.completed = 1 /\ results_summary.failed = 1
    /\ results_summary.failed_keywords = <<keywords[1]>>
    /\ results_summary.last_completed_keyword = keywords[2]

\* C15: whatever the keywords' outcomes, a batch run leaves the keyword loop
\* and reaches the end of batch_scrape_keywords; unless one of the two final
\* writes raises, progress.json then holds the final record, end time
\* included, and the report is written from that same record (its totals by
\* category and its failed keywords).
C15_FinalReport ==
    /\ <>(bpc \in {"done", "crashed"})
    /\ [](bpc = "done"
            => /\ results_summary.ended
               /\ progress_file = File(results_summary)
               /\ summary_report = File(results_summary))

\* C15: a run with a failed keyword, a completed one with a record and an
\* interruption has written both files
C15_Witness ==
    /\ bpc = "done" /\ interrupted
    /\ results_summary.failed = 1 /\ results_summary.completed = 1
    /\ results_summary.total_places = 1
    /\ summary_report = File(results_summary)

\* C16: the handles are kept in display order, the listing loop visits them
\* one after the other in that order, and a record enters places only at the
\* end of places and only at the visit of the handle it was read from; so the
\* records are in the relative order of their handles.
C16_VisitOrder ==
    /\ [](\A k, m \in 1..Len(listings) : k < m => listings[k].pos < listings[m].pos)
    /\ [][(kpc \in {"click", "details", "extract", "accept"} /\ li' # li)
            => li' = li + 1]_vars
    /\ [][Len(places') > Len(places)
            => /\ kpc = "accept" /\ li \in 1..Len(listings)
               /\ places' = Append(places, the_place[1])
               /\ li' = li + 1]_vars

\* C16: two different records, read at the first and at the second handle
C16_Witness ==
    /\ li = 3 /\ Len(listings) >= 2 /\ Len(places) = 2
    /\ places[1] # places[2]
    /\ fate = "accepted" /\ built = <<places[2]>>

\* C17: every record held by a call of scrape_single_keyword carries the
\* keyword of that call as search_keyword and the category the classifier
\* gives for that keyword; there is at most one record per visited handle.
C17_RecordsTagged ==
    /\ \A k \in 1..Len(places) :
         /\ places[k].search_keyword = search_for
         /\ places[k].category = get_category_from_keyword(search_for)
    /\ Len(places) <= li

\* C17: three unique hrefs, two records with a name, the third listing could
\* not be opened: the call returns exactly two records
C17_Witness ==
    /\ kpc = "done" /\ kret = "final"
    /\ Len(listings) = 3 /\ li = 4 /\ fate = "click_failed"
    /\ Len(places) = 2
    /\ places[1].name # <<>> /\ places[2].name # <<>>
    /\ places[1].search_keyword = K_bakery_tirur
    /\ places[2].category = "Food_Businesses"

\* C18: a browser session is open only while a call of scrape_single_keyword
\* is between its launch and its return; in a batch run that call is the one
\* made for the keyword the loop is at.  So the session of a keyword is
\* closed when the call returns, before the loop invokes the next one.
C18_SessionExclusive ==
    /\ browser = "open" => kpc \notin {"idle", "launch", "done"}
    /\ (mode = "batch" /\ browser = "open")
         => /\ bpc = "scrape"
            /\ invoked # <<>> /\ invoked[Len(invoked)] = idx
            /\ search_for = keywords[idx + 1]

\* C18: the session of the second keyword is open, that of the first is gone
C18_Witness ==
    /\ mode = "batch" /\ Len(invoked) = 2 /\ browser = "open" /\ kpc = "click"
    /\ results_summary.completed = 1 /\ results_summary.total_places = 1

\* C19, as stated: on an append-with-merge-dedup write two rows of the merged
\* table are taken for the same place exactly when the keyword-level dedup
\* key (place_id) takes them for the same place.
C19_MergeSameKey ==
    [][(nsaves' = nsaves + 1 /\ last_call'.outcome = "merged")
         => LET combined == concat(read_csv(csv), DataFrame(last_call'.places, variant)).rows
                asPlace(row) == [f \in Columns("scrapern") |-> fillna(row[f])]
            IN KeptRows([i \in 1..Len(combined) |-> duplicate_key(combined[i], variant)])
                 = KeptRows([i \in 1..Len(combined) |->
                               PlaceKey(asPlace(combined[i]), variant)])]_vars

\* the text fields read with extract_text_multiple alone
C20_PlainFields == {"name", "address", "website", "phone_number"}

\* what the page answers for a record field
C20_Answer(f) == IF f = "phone_number" THEN page.phone ELSE page[f]

\* C20, as stated: extract_place returns a record for every page, and every
\* field whose extraction failed holds its creation default.
C20_FailedKeepDefaults ==
    /\ <>(the_place # <<>>)
    /\ [](the_place # <<>> =>
            LET place == the_place[1] IN
            /\ \A f \in C20_PlainFields \cup {"introduction"} :
                 extract_text_multiple(C20_Answer(f)) = <<>> => place[f] = NewPlace[f]
            /\ page.url = "raise" => place.google_maps_url = NewPlace.google_maps_url
            /\ page.popular = "raise" => place.popular_times = NewPlace.popular_times
            /\ page.verified = "raise"
                 => place.verified_business = NewPlace.verified_business)

\* C20: extract_place returns a record for every page, whatever fails.  A
\* field whose extraction failed holds its creation default, with two
\* exceptions: introduction is "None Found", and in scrapern.py popular_times
\* is "Not Available".  No field is required: the record is returned even
\* when every extraction failed.
C20_BuildNeverAborts ==
    /\ <>(the_place # <<>>)
    /\ [](the_place # <<>> =>
            LET place == the_place[1] IN
            /\ \A f \in C20_PlainFields :
                 extract_text_multiple(C20_Answer(f)) = <<>> => place[f] = NewPlace[f]
            /\ extract_text_multiple(page.introduction) = <<>>
                 => place.introduction = NoneFound
            /\ page.url = "raise" => place.google_maps_url = NewPlace.google_maps_url
            /\ page.popular = "raise"
                 => place.popular_times = IF variant = "scrapern" THEN "Not Available"
                                          ELSE NewPlace.popular_times
            /\ page.verified = "raise"
                 => place.verified_business = NewPlace.verified_business)

\* C20: every capability call of the page raised, a record came back
C20_Witness ==
    /\ mode = "build" /\ the_place # <<>>
    /\ \A f \in C20_PlainFields \cup {"introduction"} :
         C20_Answer(f) = <<Raises, Raises, Raises>>
    /\ page.url = "raise" /\ page.popular = "raise" /\ page.verified = "raise"
    /\ the_place[1].name = <<>> /\ the_place[1].address = <<>>
    /\ the_place[1].phone_number = <<>>
    /\ the_place[1].introduction = NoneFound

----------------------------------------------------------------------------
\* a candidate qualifies when it matched an element and its trimmed text is
\* not empty
C21_Qualifies(c) == c.kind = "text" /\ Strip(c.text) # <<>>

\* C21: for every ordered candidate list, the value read is the trimmed text
\* of the first candidate, in list order, that matched an element and whose
\* trimmed text is non-empty, whatever the later candidates answer; a
\* candidate whose call raises is passed over; the value is the empty string
\* when no candidate qualifies.  (Checked on the website field, which is
\* extract_text_multiple and nothing else.)
C21_OrderedFallback ==
    (mode = "build" /\ kpc = "accept") =>
        LET xs == page.website
            got == the_place[1].website
        IN \/ \E i \in 1..Len(xs) :
                 /\ C21_Qualifies(xs[i])
                 /\ \A j \in 1..(i - 1) : ~C21_Qualifies(xs[j])
                 /\ got = Strip(xs[i].text)
           \/ /\ \A i \in 1..Len(xs) : ~C21_Qualifies(xs[i])
              /\ got = <<>>

\* a pass in which a blank first match was passed over and the second
\* candidate's text was returned although a third candidate has text too
C21_Witness ==
    /\ mode = "build" /\ kpc = "accept"
    /\ page.website = <<Text(<<" ">>), Text(<<"y">>), Text(<<"z">>)>>
    /\ the_place[1].website = <<"y">>

----------------------------------------------------------------------------
\* the service flags of a record
C22_Flags ==
    { "store_shopping", "in_store_pickup", "store_delivery", "dine_in", "takeaway",
      "reservations", "wheelchair_accessible", "verified_business" }

\* C22: within one extraction pass every service flag starts at its creation
\* default (No, or Unknown for wheelchair access and verification), and a
\* flag that is Yes is still Yes after every later step of the pass: the
\* next snippet, the next locator, the verified-badge block, the return.
C22_FlagsMonotone ==
    /\ [](kpc = "store_info" /\ build.xpath = 1 /\ build.i = 0
            => \A f \in C22_Flags : build.place[f] = NewPlace[f])
    /\ [][\A f \in C22_Flags :
             (build # NoBuild /\ build.place[f] = "Yes") => build'.place[f] = "Yes"]_vars

\* a finished pass of scrapern.py in which snippets set shopping, wheelchair
\* access, reservations, pickup and verification, later snippets and locators
\* named none of them, and the verified badge was absent
C22_Witness ==
    /\ mode = "build" /\ kpc = "accept" /\ variant = "scrapern"
    /\ page.store_info[1] = Located(HeadElements(MidDot("scrapern")))
    /\ page.store_info[2] = Located(LongElements(MidDot("scrapern")))
    /\ page.verified = "none"
    /\ \A f \in {"store_shopping", "wheelchair_accessible", "reservations",
                  "in_store_pickup", "takeaway", "verified_business"} :
         the_place[1][f] = "Yes"
    /\ the_place[1].store_delivery = "No"

----------------------------------------------------------------------------
\* the raw review-count text of the page at hand
C23_Raw == extract_text_multiple(page.reviews_count)

\* raw[a..b] is the first maximal run of digits and commas of raw
C23_FirstRun(raw, a, b) ==
    /\ \A k \in a..b : IsCountChar(raw[k])
    /\ \A k \in 1..(a - 1) : ~IsCountChar(raw[k])
    /\ b = Len(raw) \/ ~IsCountChar(raw[b + 1])

\* 10^n
RECURSIVE C23_Pow10(_)
C23_Pow10(n) == IF n = 0 THEN 1 ELSE 10 * C23_Pow10(n - 1)

\* the number the digits of raw[a..b] write, commas left out, from the
\* weights of the decimal places
RECURSIVE C23_Number(_, _, _)
C23_Number(raw, a, b) ==
    IF a > b THEN 0
    ELSE LET after == Cardinality({k \in (a + 1)..b : IsDigit(raw[k])})
         IN (IF IsDigit(raw[a]) THEN DigitValue(raw[a]) * C23_Pow10(after) ELSE 0)
            + C23_Number(raw, a + 1, b)

\* C23: once the review-count block has run, the review count is the
\* integer written by the first run of digits and commas of the raw text,
\* commas removed ("1,234 reviews" gives 1234); for a raw text without any
\* digit the field is unset (None, not 0); the pass goes on in every case.
C23_ReviewCount ==
    (mode = "build" /\ kpc \in {"store_info", "accept"}) =>
        LET raw == C23_Raw
            got == build.place.reviews_count
        IN /\ (\A k \in 1..Len(raw) : ~IsDigit(raw[k])) => got = None
           /\ \A a \in 1..Len(raw) : \A b \in a..Len(raw) :
                (C23_FirstRun(raw, a, b) /\ \E k \in a..b : IsDigit(raw[k]))
                    => got = Some(C23_Number(raw, a, b))
           /\ raw = <<"1", ",", "2", "3", "4", " ", "r", "e", "v", "i", "e", "w", "s">> => got = Some(1234)

\* a finished pass over "1,234 reviews": the count is 1234 although a later
\* candidate reads "9"
C23_Witness ==
    /\ mode = "build" /\ kpc = "accept"
    /\ C23_Raw = <<"1", ",", "2", "3", "4", " ", "r", "e", "v", "i", "e", "w", "s">>
    /\ the_place[1].reviews_count = Some(1234)

----------------------------------------------------------------------------
\* the raw opening-hours text of the page at hand
C24_Raw == extract_text_multiple(page.opens)

\* the separator occurs in raw at offset k (it covers raw[k+1 .. k+Len(sep)])
C24_SepAt(raw, sep, k) ==
    /\ k \in 0..(Len(raw) - Len(sep))
    /\ SubSeq(raw, k + 1, k + Len(sep)) = sep

C24_Offsets(raw, sep) == {k \in 0..Len(raw) : C24_SepAt(raw, sep, k)}

C24_Max(S) == CHOOSE k \in S : \A j \in S : j <= k
C24_Min(S) == CHOOSE k \in S : \A j \in S : k <= j

\* the part of raw after the last separator
C24_Trailing(raw, sep) ==
    SubSeq(raw, C24_Max(C24_Offsets(raw, sep)) + Len(sep) + 1, Len(raw))

\* the part of raw between the first separator and the next one (or the end)
C24_Second(raw, sep) ==
    LET first == C24_Min(C24_Offsets(raw, sep))
        later == {k \in C24_Offsets(raw, sep) : k >= first + Len(sep)}
    IN SubSeq(raw, first + Len(sep) + 1,
              IF later = {} THEN Len(raw) ELSE C24_Min(later))

\* C24 as claimed: when the raw hours text contains the separator, opens_at
\* is the part after the last separator (narrow no-break spaces removed,
\* trimmed) and full_hours is the full original text, for one separator and
\* for several.
C24_TrailingSegment ==
    (mode = "build" /\ kpc = "accept" /\ Contains(HoursDot(variant), C24_Raw)) =>
        /\ the_place[1].opens_at = CleanHours(C24_Trailing(C24_Raw, HoursDot(variant)))
        /\ variant = "scrapern" => the_place[1].full_hours = C24_Raw

\* C24: when the raw hours text contains the separator, opens_at is the
\* second segment of the text (the part between the first separator and the
\* next one, or the end of the text when there is one separator only) and
\* full_hours (scrapern.py) is the whole text, both with the narrow no-break
\* spaces removed and trimmed.
C24_SecondSegment ==
    (mode = "build" /\ kpc = "accept" /\ Contains(HoursDot(variant), C24_Raw)) =>
        /\ the_place[1].opens_at = CleanHours(C24_Second(C24_Raw, HoursDot(variant)))
        /\ variant = "scrapern" => the_place[1].full_hours = CleanHours(C24_Raw)

\* a finished pass over a text with two separators: opens_at is the middle
\* segment, not the last one
C24_Witness ==
    /\ mode = "build" /\ kpc = "accept"
    /\ Cardinality(C24_Offsets(C24_Raw, HoursDot(variant))) = 2
    /\ the_place[1].opens_at = <<"O", "p", "e", "n", "s", " ", "9", "a", "m">>

----------------------------------------------------------------------------
\* the count read in cycle n of the simulated panel; before the first cycle
\* the previous count is the initial previously_counted, 0
C25_Reading(n) ==
    IF n = 0 THEN 0 ELSE script[IF n < Len(script) THEN n ELSE Len(script)]

\* how many consecutive cycles, up to and including cycle n, read the count
\* of the cycle before
RECURSIVE C25_Unchanged(_)
C25_Unchanged(n) ==
    IF n = 0 \/ C25_Reading(n) # C25_Reading(n - 1) THEN 0
    ELSE 1 + C25_Unchanged(n - 1)

\* the loop stops for stability exactly in the first cycle whose count has
\* equalled the previous one for max_no_change consecutive cycles
C25_FirstStableCycle ==
    /\ (kpc = "scrolled" /\ stop_reason = "stable")
         => /\ C25_Unchanged(scroll_attempts) = max_no_change
            /\ no_change_count = max_no_change
            /\ \A k \in 0..(scroll_attempts - 1) : C25_Unchanged(k) < max_no_change
    /\ kpc = "scroll"
         => /\ no_change_count = C25_Unchanged(scroll_attempts)
            /\ \A k \in 0..scroll_attempts : C25_Unchanged(k) < max_no_change

\* a step of the loop in which the count was read and compared
C25_Compared ==
    /\ kpc = "scroll" /\ scroll_attempts' = scroll_attempts + 1
    /\ kpc' \in {"scroll", "scrolled"} /\ stop_reason' \notin {"error", "cap"}

\* C25 as claimed: the loop stops for stability exactly in the first cycle at
\* which the count has equalled the previous cycle's count for patience
\* consecutive cycles; the no-growth counter is incremented on an equal
\* reading and reset to zero only when the count increased.
C25_ResetOnlyOnGrowth ==
    /\ [](mode = "single" => C25_FirstStableCycle)
    /\ [][C25_Compared =>
            /\ found' = previously_counted => no_change_count' = no_change_count + 1
            /\ (no_change_count > 0 /\ no_change_count' = 0)
                 => found' > previously_counted]_vars

\* C25: the loop stops for stability exactly in the first cycle at which the
\* count has equalled the previous cycle's count for patience consecutive
\* cycles (the count before the first cycle being 0); the no-growth counter
\* is incremented on an equal reading and reset to zero on every reading
\* that differs from the previous one, larger or smaller; the loop never
\* stops for stability with fewer than patience consecutive unchanged
\* readings.
C25_StabilityRule ==
    /\ [](mode = "single" => C25_FirstStableCycle)
    /\ [][C25_Compared =>
            /\ found' = previously_counted => no_change_count' = no_change_count + 1
            /\ found' # previously_counted => no_change_count' = 0
            /\ (no_change_count > 0 /\ no_change_count' = 0)
                 => found' # previously_counted]_vars

\* the count fell after four unchanged readings and the loop stopped for
\* stability max_no_change cycles after the fall
C25_Witness ==
    /\ script = Dip /\ max_results = None
    /\ kpc = "scrolled" /\ stop_reason = "stable"
    /\ scroll_attempts = 6 + max_no_change
    /\ no_change_count = max_no_change

----------------------------------------------------------------------------
\* C26: a failure of the scroll or of the count during a scroll cycle does
\* not end the call: no step taken inside the scroll loop ends the call with
\* an error; the loop is left, the links rendered at that moment are
\* collected, deduplicated (and cut to the cap), and the listing loop starts
\* on them.
C26_ScrollFailureNonFatal ==
    /\ [][kpc = "scroll" => kret' # "page_error"]_vars
    /\ [][(kpc = "scrolled" /\ stop_reason = "error") => kpc' = "collect"]_vars
    /\ [][(kpc = "collect" /\ stop_reason = "error" /\ kpc' = "listed")
            => listings' = Listings(all_links', max_results, variant)]_vars
    /\ [][(kpc = "listed" /\ listings # <<>>) => (kpc' = "click" /\ li' = 1)]_vars

----------------------------------------------------------------------------
\* C27: every keyword the batch loop has iterated is counted once, in
\* completed or in failed, never in both, and the keyword an interrupt cut
\* short in neither: at every point completed + failed is at most the number
\* of keywords iterated so far; a step that breaks the loop leaves the last
\* keyword uncounted; after a run that was not interrupted completed + failed
\* = len(keywords) - start_from and len(failed_keywords) = failed.
C27_KeywordAccounting ==
    /\ [](mode = "batch" =>
            /\ results_summary.completed + results_summary.failed <= Len(invoked)
            /\ Len(results_summary.failed_keywords) = results_summary.failed
            /\ (bpc \in {"final", "done"} /\ ~interrupted /\ start_from <= Len(keywords))
                 => results_summary.completed + results_summary.failed
                      = Len(keywords) - start_from)
    /\ [][(mode = "batch" /\ bpc \in {"scrape", "progress"} /\ bpc' = "final")
            => results_summary'.completed + results_summary'.failed
                 <= Len(invoked') - 1]_vars

----------------------------------------------------------------------------
\* the sum of the per-category totals
RECURSIVE C28_Sum(_, _)
C28_Sum(cats, S) ==
    IF S = {} THEN 0
    ELSE LET c == CHOOSE x \in S : TRUE IN cats[c] + C28_Sum(cats, S \ {c})

\* the step in which the keyword loop reaches the save step of a keyword:
\* scrape_single_keyword has returned a non-empty result set
C28_SaveReached ==
    /\ mode = "batch" /\ bpc = "scrape" /\ kpc = "done"
    /\ kret \notin {"interrupt", "exception"} /\ places # <<>>

\* the per-category totals with the result set at hand added
C28_Added ==
    AddToCategory(results_summary.categories, get_category_from_keyword(search_for),
                  Len(places))

\* C28 as claimed: in every state of a batch run total_places is the sum of
\* the per-category totals, and each per-category total is the sum of the
\* result-set sizes of the keywords of that category whose save step was
\* reached: it grows by the size of the result set in every step that reaches
\* a save step, and in no other step.
C28_TotalsOfReachedSaves ==
    /\ [](mode = "batch"
            => results_summary.total_places = C28_Sum(results_summary.categories, Categories))
    /\ [][(mode = "batch" /\ C28_SaveReached)
            => results_summary'.categories = C28_Added]_vars
    /\ [][(mode = "batch" /\ ~C28_SaveReached)
            => results_summary'.categories = results_summary.categories]_vars

\* C28: in every state of a batch run total_places is the sum of the
\* per-category totals, and each per-category total is the sum of the
\* result-set sizes of the keywords of that category whose two save calls
\* returned to the loop: it grows by the size of the result set in every step
\* in which the saves return, and in no other step (a keyword whose save
\* raised into the loop or was interrupted adds nothing).
C28_TotalsOfReturnedSaves ==
    /\ [](mode = "batch"
            => results_summary.total_places = C28_Sum(results_summary.categories, Categories))
    /\ [][(mode = "batch" /\ C28_SaveReached /\ bpc' = "progress")
            => results_summary'.categories = C28_Added]_vars
    /\ [][(mode = "batch" /\ ~(C28_SaveReached /\ bpc' = "progress"))
            => results_summary'.categories = results_summary.categories]_vars

\* two keywords of two categories have been saved and counted
C28_Witness ==
    /\ mode = "batch" /\ bpc = "loop"
    /\ results_summary.completed = 2
    /\ results_summary.total_places >= 2
    /\ Cardinality({c \in Categories : results_summary.categories[c] > 0}) = 2

----------------------------------------------------------------------------
\* C29: a non-interrupt error of a page operation inside the guarded section
\* of scrape_single_keyword (opening the map page, the search box, any later
\* page operation) never leaves the call as an exception: the call ends by
\* returning the records accumulated so far, and the keyword loop books that
\* keyword as completed and not as failed.
C29_FailureAbsorbed ==
    /\ [][kpc \notin {"idle", "launch", "done"} => kret' # "exception"]_vars
    /\ [][(kret = "none" /\ kret' = "page_error") => (kpc' = "done" /\ places' = places)]_vars
    /\ [][(mode = "batch" /\ bpc = "scrape" /\ kpc = "done" /\ kret = "page_error")
            => /\ bpc' = "progress"
               /\ results_summary'.completed = results_summary.completed + 1
               /\ results_summary'.failed = results_summary.failed
               /\ results_summary'.failed_keywords = results_summary.failed_keywords]_vars

\* the search of the second keyword of a batch failed and the call has
\* returned, with no record
C29_Witness ==
    /\ mode = "batch" /\ bpc = "scrape" /\ idx = 1
    /\ kpc = "done" /\ kret = "page_error" /\ places = <<>>
    /\ scroll_attempts = 0 /\ listings = <<>>

----------------------------------------------------------------------------
C31_Visiting == kpc \in {"click", "details", "extract", "accept"}

C31_CapBoundsOutput ==
    /\ [](/\ Truthy(max_results) =>
                /\ Len(listings) <= max_results[1]
                /\ Len(places) <= max_results[1]
                /\ (C31_Visiting => li <= max_results[1])
          /\ kpc = "listed" =>
                Len(listings) <= Len(unique_hrefs(all_links, variant))
          /\ C31_Visiting => (li \in 1..Len(listings) /\ Len(places) < li)
          /\ Len(places) <= Len(listings))
    /\ [][C31_Visiting => listings' = listings]_vars

\* C31: a call with cap 1 has visited its one listing and returns one record
C31_Witness ==
    /\ kpc = "done" /\ kret = "final"
    /\ max_results = Some(1)
    /\ Len(listings) = 1 /\ li = 2 /\ Len(places) = 1

\* C32, as stated: after save_places_to_csv has written a non-empty record
\* list in overwrite mode (append = False), the file is a table with one row
\* per record, in the records' order, that has the columns name, address and
\* phone_number holding each record's values.
C32_Identifying == {"name", "address", "phone_number"}

C32_OverwriteKeepsRecords ==
    (last_call.outcome = "written" /\ ~last_call.append)
        => /\ csv.state = "table"
           /\ C32_Identifying \subseteq csv.cols
           /\ Len(csv.rows) = Len(last_call.places)
           /\ \A i \in 1..Len(last_call.places) : \A f \in C32_Identifying :
                  csv.rows[i][f] = last_call.places[i][f]

\* C33: a call with max_results = 0 takes the steps of a call without a cap:
\* its scroll loop never stops for the cap, every counted cycle ends as the
\* decision made with max_results = None ends it (same counters, same stop or
\* continuation), and the listing loop gets every handle of unique_hrefs.
C33_CountedStep == kpc = "scroll" /\ kpc' # "done" /\ stop_reason' # "error"

C33_CapZeroIsNoCap ==
    /\ [](max_results = Some(0) => stop_reason # "cap")
    /\ [][(max_results = Some(0) /\ C33_CountedStep)
            => LET d == ScrollDecision(found', previously_counted, no_change_count,
                                       None, max_no_change)
               IN /\ d.stop # "cap"
                  /\ previously_counted' = d.prev
                  /\ no_change_count' = d.ncc
                  /\ (kpc' = "scrolled")
                       = (d.stop = "stable" \/ ~LoopCond(scroll_attempts'))]_vars
    /\ [][(max_results = Some(0) /\ kpc = "collect" /\ kpc' = "listed")
            => listings' = Listings(all_links', None, variant)]_vars

\* C33: a call with max_results = 0 has visited two listings and returns
\* both records
C33_Witness ==
    /\ kpc = "done" /\ kret = "final"
    /\ max_results = Some(0)
    /\ Len(listings) = 2 /\ Len(places) = 2

\* C34, as stated: every keyword of the built-in list gets the category its
\* heading names, and the category is that of the first rule, in the order
\* food, event, wholesale, specialty, large-scale, one of whose words occurs
\* in the lower-cased keyword, 'Other' if there is no such rule.
C34_CategoryOf(heading) ==
    CASE heading = "Food Businesses" -> "Food_Businesses"
      [] heading = "Event & Catering" -> "Event_Catering"
      [] heading = "Wholesale & Frozen Food" -> "Wholesale_Frozen"
      [] heading = "Specialty Food & Biryani" -> "Specialty_Food"
      [] heading \in {"Large-Scale Buyers", "Large-Scale Buyers - Supermarkets",
                      "Large-Scale Buyers - Grocery Stores"} -> "Large_Scale_Buyers"

C34_Rules ==
    << [words |-> {W_bakery, W_hotel, W_restaurant, W_tea_shop, W_snacks_shop},
        category |-> "Food_Businesses"],
       [words |-> {W_catering, W_event_management}, category |-> "Event_Catering"],
       [words |-> {W_wholesale, W_frozen_food}, category |-> "Wholesale_Frozen"],
       [words |-> {W_biryani, W_fast_food}, category |-> "Specialty_Food"],
       [words |-> {W_canteen, W_mess}, category |-> "Large_Scale_Buyers"] >>

C34_Matching(k) == {r \in 1..Len(C34_Rules) : AnyIn(C34_Rules[r].words, Lower(k))}

C34_FirstRuleDecides ==
    (mode = "classify" /\ kpc = "launch") =>
        category = IF C34_Matching(search_for) = {} THEN "Other"
                   ELSE C34_Rules[CHOOSE r \in C34_Matching(search_for) :
                                    \A q \in C34_Matching(search_for) : r <= q].category

C34_Heading == BuiltinEntries(variant)[idx + 1].heading

C34_BuiltinClassified ==
    (mode = "classify" /\ kpc = "launch") =>
        /\ search_for = BuiltinEntries(variant)[idx + 1].keyword
        /\ category = C34_CategoryOf(C34_Heading)
        /\ C34_FirstRuleDecides

====
